---- MODULE Spec2Model ----
(***************************************************************************)
(* Block-based internal-link insertion engine (strategist inlinks block    *)
(* graph): the edit-proposal loop of judgeCandidatesNode and the pure      *)
(* string functions it calls.                                              *)
(*                                                                         *)
(* A string is a sequence of characters; a character is a one-element      *)
(* TLA+ string, except the white-space characters that have no printable   *)
(* form, which carry a name (NBSP is U+00A0, TAB is U+0009, NL is U+000A).    *)
(***************************************************************************)
EXTENDS Integers, Sequences, FiniteSets, TLC

NBSP == "nbsp"
TAB == "tab"
NL == "nl"

\* The characters matched by \s in a JavaScript regular expression and
\* stripped by String.prototype.trim.
WhiteSpace == {" ", NBSP, TAB, NL}

Digits == {"0", "1", "2", "3", "4", "5", "6", "7", "8", "9"}

LowerLetters ==
  {"a", "b", "c", "d", "e", "f", "g", "h", "i", "j", "k", "l", "m",
   "n", "o", "p", "q", "r", "s", "t", "u", "v", "w", "x", "y", "z"}

\* The accented letters the token regular expressions keep (a-acute ... c-cedilla),
\* named because the module is written in ASCII.
AccentedLetters ==
  {"a_acute", "e_acute", "i_acute", "o_acute", "u_acute", "a_tilde", "o_tilde",
   "a_circ", "e_circ", "i_circ", "o_circ", "u_circ", "a_grave", "c_cedil"}

UpperToLower ==
  [c \in {"A", "C", "E", "G", "L", "O", "S", "T", "V"} |->
     CASE c = "A" -> "a" [] c = "C" -> "c" [] c = "E" -> "e" [] c = "G" -> "g"
       [] c = "L" -> "l" [] c = "O" -> "o" [] c = "S" -> "s" [] c = "T" -> "t"
       [] c = "V" -> "v"]

\* String.prototype.toLowerCase
toLowerCase(s) ==
  [i \in 1..Len(s) |-> IF s[i] \in DOMAIN UpperToLower THEN UpperToLower[s[i]] ELSE s[i]]

\* .replace(/\u00a0/g, " ")
replaceNbsp(s) == [i \in 1..Len(s) |-> IF s[i] = NBSP THEN " " ELSE s[i]]

\* .replace(/\s+/g, " "): every maximal run of white space becomes one space
RECURSIVE collapseWhitespace(_)
collapseWhitespace(s) ==
  IF s = <<>> THEN <<>>
  ELSE IF Head(s) \in WhiteSpace
       THEN IF Len(s) >= 2 /\ s[2] \in WhiteSpace
            THEN collapseWhitespace(Tail(s))
            ELSE <<" ">> \o collapseWhitespace(Tail(s))
       ELSE <<Head(s)>> \o collapseWhitespace(Tail(s))

RECURSIVE trimStart(_)
trimStart(s) ==
  IF s # <<>> /\ Head(s) \in WhiteSpace THEN trimStart(Tail(s)) ELSE s

RECURSIVE trimEnd(_)
trimEnd(s) ==
  IF s # <<>> /\ s[Len(s)] \in WhiteSpace THEN trimEnd(SubSeq(s, 1, Len(s) - 1)) ELSE s

\* String.prototype.trim
trim(s) == trimEnd(trimStart(s))

\* .replace(/[^a-z0-9<accented>\s]+/gi, " ") applied to a lowercased string:
\* every maximal run of other characters becomes one space
IsTokenChar(c) == c \in LowerLetters \cup Digits \cup AccentedLetters \cup WhiteSpace

RECURSIVE replaceNonToken(_)
replaceNonToken(s) ==
  IF s = <<>> THEN <<>>
  ELSE IF ~IsTokenChar(Head(s))
       THEN IF Len(s) >= 2 /\ ~IsTokenChar(s[2])
            THEN replaceNonToken(Tail(s))
            ELSE <<" ">> \o replaceNonToken(Tail(s))
       ELSE <<Head(s)>> \o replaceNonToken(Tail(s))

\* The pieces of s between separators; seps is the set of separator
\* characters and runs tells whether a run of separators is one separator
\* (split(/\s+/)) or each separator splits on its own (split(" ")).
RECURSIVE splitAcc(_, _, _, _)
splitAcc(s, seps, runs, cur) ==
  IF s = <<>> THEN <<cur>>
  ELSE IF Head(s) \in seps
       THEN IF runs /\ Len(s) >= 2 /\ s[2] \in seps
            THEN splitAcc(Tail(s), seps, runs, cur)
            ELSE <<cur>> \o splitAcc(Tail(s), seps, runs, <<>>)
       ELSE splitAcc(Tail(s), seps, runs, cur \o <<Head(s)>>)

\* .split(/\s+/)
splitWhitespace(s) == splitAcc(s, WhiteSpace, TRUE, <<>>)

\* .split(" ")
splitSpace(s) == splitAcc(s, {" "}, FALSE, <<>>)

\* .filter((t) => t.length > 2 && !stop.has(t)); stop is empty where the code
\* filters on length alone
RECURSIVE filterTokens(_, _)
filterTokens(xs, stop) ==
  IF xs = <<>> THEN <<>>
  ELSE IF Len(Head(xs)) > 2 /\ Head(xs) \notin stop
       THEN <<Head(xs)>> \o filterTokens(Tail(xs), stop)
       ELSE filterTokens(Tail(xs), stop)

\* String.prototype.includes
includes(s, sub) ==
  \E i \in 0..(Len(s) - Len(sub)) : SubSeq(s, i + 1, i + Len(sub)) = sub

\* Array.prototype.join
RECURSIVE join(_, _)
join(xs, sep) ==
  IF xs = <<>> THEN <<>>
  ELSE IF Len(xs) = 1 THEN xs[1]
  ELSE xs[1] \o sep \o join(Tail(xs), sep)

Range(f) == {f[i] : i \in DOMAIN f}

\* ---------------------------------------------------------------------
\* Pure functions of the block graph
\* ---------------------------------------------------------------------

Max(a, b) == IF a >= b THEN a ELSE b

\* Math.ceil(n / d) for n >= 0, d > 0
CeilDiv(n, d) == (n + d - 1) \div d

\* content.trim().length === 0 ? 0 : content.trim().split(/\s+/).length
wordCount(content) ==
  IF Len(trim(content)) = 0 THEN 0 ELSE Len(splitWhitespace(trim(content)))

\* The optional argument of computeMaxLinks (state.maxLinks): absent, or a
\* number given in halves (halves = 3 stands for 1.5) so that Math.floor acts.
Undefined == [given |-> FALSE, halves |-> 0]
Explicit(h) == [given |-> TRUE, halves |-> h]

computeMaxLinks(content, explicit) ==
  IF explicit.given /\ explicit.halves > 0
  THEN explicit.halves \div 2
  ELSE Max(2, CeilDiv(wordCount(content) * 4, 1000))

\* normalizeTokens of pickBestBlock
normalizeTokens(value) ==
  filterTokens(splitWhitespace(replaceNonToken(replaceNbsp(toLowerCase(value)))), {})

\* The number of tokens of the block (with repetitions) that are in candTokens
RECURSIVE countIn(_, _)
countIn(tokens, candTokens) ==
  IF tokens = <<>> THEN 0
  ELSE (IF Head(tokens) \in candTokens THEN 1 ELSE 0) + countIn(Tail(tokens), candTokens)

\* The for loop of pickBestBlock: best is the index of the best block so far
\* (0 for null), bestScore its score.
RECURSIVE pickLoop(_, _, _, _, _)
pickLoop(blocks, candTokens, i, best, bestScore) ==
  IF i > Len(blocks) THEN best
  ELSE LET tokens == normalizeTokens(blocks[i].text)
           score == countIn(tokens, candTokens)
       IN IF tokens = <<>> THEN pickLoop(blocks, candTokens, i + 1, best, bestScore)
          ELSE IF score > bestScore
               THEN pickLoop(blocks, candTokens, i + 1, i, score)
               ELSE pickLoop(blocks, candTokens, i + 1, best, bestScore)

\* The value pickBestBlock returns when it finds no block
Null == [id |-> "null"]

\* The token types a block shares with the candidate content
sharedTypes(block, candidateContent) ==
  Cardinality(Range(normalizeTokens(block.text)) \cap Range(normalizeTokens(candidateContent)))

\* The occurrences of tokens in the block that are tokens of the candidate
\* content
sharedOccurrences(block, candidateContent) ==
  LET tokens == normalizeTokens(block.text)
  IN Cardinality({k \in 1..Len(tokens) : tokens[k] \in Range(normalizeTokens(candidateContent))})

\* The earliest index, among the blocks that hold a token, of a block whose
\* count is the highest; 0 when the candidate content or every block holds
\* no token
firstBest(blocks, candidateContent, count(_, _)) ==
  LET holding == {i \in 1..Len(blocks) : normalizeTokens(blocks[i].text) # <<>>}
  IN IF holding = {} \/ normalizeTokens(candidateContent) = <<>> THEN 0
     ELSE CHOOSE i \in holding :
            \A j \in holding :
               \/ count(blocks[i], candidateContent) > count(blocks[j], candidateContent)
               \/ /\ count(blocks[i], candidateContent) = count(blocks[j], candidateContent)
                  /\ i <= j

\* Mutant: the score of a block is the number of token types it shares
pickBestBlockByTypes(blocks, candidateContent) ==
  LET best == firstBest(blocks, candidateContent, sharedTypes)
  IN IF best = 0 THEN Null ELSE blocks[best]

pickBestBlock(blocks, candidateContent) ==
  LET candTokens == Range(normalizeTokens(candidateContent))
  IN IF candTokens = {} THEN Null
     ELSE LET best == pickLoop(blocks, candTokens, 1, 0, -1)
          IN IF best = 0 THEN Null ELSE blocks[best]

\* The length of the longest run of characters other than stop that starts
\* at position p of s: what [^\]]+ and [^)]+ consume.
RECURSIVE runNot(_, _, _)
runNot(s, p, stop) ==
  IF p > Len(s) \/ s[p] = stop THEN 0 ELSE 1 + runNot(s, p + 1, stop)

\* One match of /\[[^\]]+\]\(([^)]+)\)/ starting exactly at position p:
\* the link text, the captured url and the position after the match.
linkAt(s, p) ==
  LET n1 == runNot(s, p + 1, "]")
      q == p + 1 + n1
      n2 == runNot(s, q + 2, ")")
      r == q + 2 + n2
  IN IF /\ s[p] = "["
        /\ n1 >= 1
        /\ q + 1 <= Len(s)
        /\ s[q] = "]"
        /\ s[q + 1] = "("
        /\ n2 >= 1
        /\ r <= Len(s)
        /\ s[r] = ")"
     THEN [found |-> TRUE, text |-> SubSeq(s, p + 1, q - 1),
           url |-> SubSeq(s, q + 2, r - 1), next |-> r + 1]
     ELSE [found |-> FALSE]

\* [...s.matchAll(/\[[^\]]+\]\(([^)]+)\)/g)]: the matches from position p
\* on, leftmost first, none overlapping
RECURSIVE matchAllLinks(_, _)
matchAllLinks(s, p) ==
  IF p > Len(s) THEN <<>>
  ELSE LET m == linkAt(s, p)
       IN IF m.found
          THEN <<[text |-> m.text, url |-> m.url]>> \o matchAllLinks(s, m.next)
          ELSE matchAllLinks(s, p + 1)

\* Mutant: "at least one link" instead of "exactly one link"
ensureSomeMarkdownLink(modifiedBlockText, expectedUrl) ==
  LET matches == matchAllLinks(modifiedBlockText, 1)
  IN IF Len(matches) < 1 THEN FALSE
     ELSE trim(matches[1].url) = expectedUrl

ensureSingleMarkdownLink(modifiedBlockText, expectedUrl) ==
  LET matches == matchAllLinks(modifiedBlockText, 1)
  IN IF Len(matches) # 1 THEN FALSE
     ELSE trim(matches[1].url) = expectedUrl

\* normalizeAnchor of judgeCandidatesNode
normalizeAnchor(value) == trim(collapseWhitespace(replaceNbsp(toLowerCase(value))))

genericPhrases ==
  { <<"c", "l", "i", "q", "u", "e", " ", "a", "q", "u", "i">>, <<"a", "q", "u", "i">>,
    <<"s", "a", "i", "b", "a", " ", "m", "a", "i", "s">>, <<"l", "e", "i", "a", " ", "m", "a", "i", "s">>,
    <<"n", "e", "s", "t", "e", " ", "l", "i", "n", "k">>, <<"c", "o", "n", "f", "i", "r", "a">>,
    <<"v", "e", "j", "a">>, <<"a", "c", "e", "s", "s", "e">>,
    <<"e", "n", "t", "e", "n", "d", "a">>, <<"d", "e", "s", "c", "u", "b", "r", "a">> }

\* \s* on a string whose white space is single spaces
OptSpace == {<<>>, <<" ">>}

AllDigits(s) == \A i \in 1..Len(s) : s[i] \in Digits

\* The languages of the nine vaguePatterns, on a normalized anchor
vaguePatterns(a) ==
  \/ \E sp \in OptSpace :
        /\ Len(a) = 6 + Len(sp) + 4
        /\ SubSeq(a, 1, 6 + Len(sp)) = <<"m", "o", "d", "e", "l", "o">> \o sp
        /\ AllDigits(SubSeq(a, 7 + Len(sp), Len(a)))
  \/ \E s \in {<<>>, <<"s">>}, sp1 \in OptSpace, m \in {<<>>, <<"m", "a", "i", "s">>},
        sp2 \in OptSpace, r \in {<<>>, <<"r", "e", "c", "e", "n", "t", "e", "s">>, <<"n", "o", "v", "o", "s">>, <<"a", "n", "t", "i", "g", "o", "s">>} :
        a = <<"m", "o", "d", "e", "l", "o">> \o s \o sp1 \o m \o sp2 \o r
  \/ \E s \in {<<>>, <<"s">>}, sp \in OptSpace, d \in {<<>>, <<"d", "i", "s", "p", "o", "n", "i_acute", "v", "e", "i", "s">>} :
        a = <<"o", "p", "c_cedil", "o_tilde", "e">> \o s \o sp \o d
  \/ \E sp \in OptSpace, c \in {<<>>, <<"c", "o", "m", "p", "l", "e", "t", "a">>} : a = <<"l", "i", "s", "t", "a">> \o sp \o c
  \/ a \in {<<"a", "r", "t", "i", "g", "o">>, <<"c", "o", "n", "t", "e", "u_acute", "d", "o">>, <<"p", "o", "s", "t">>, <<"g", "u", "i", "a">>}
  \/ \E sp1 \in OptSpace, x \in {<<>>, <<"a">>}, sp2 \in OptSpace :
        a = <<"v", "e", "j", "a">> \o sp1 \o x \o sp2 \o <<"l", "i", "s", "t", "a">>

\* a.split(" ").filter(Boolean).length
RECURSIVE countNonEmpty(_)
countNonEmpty(xs) ==
  IF xs = <<>> THEN 0
  ELSE (IF Head(xs) # <<>> THEN 1 ELSE 0) + countNonEmpty(Tail(xs))

\* Mutant: the set of generic phrases is not consulted
isGenericAnchorNoPhrases(anchor) ==
  LET a == trim(collapseWhitespace(replaceNbsp(toLowerCase(anchor))))
  IN IF a = <<>> THEN TRUE
     ELSE IF vaguePatterns(a) THEN TRUE
     ELSE IF countNonEmpty(splitSpace(a)) < 2 THEN TRUE
     ELSE IF AllDigits(a) THEN TRUE
     ELSE FALSE

isGenericAnchor(anchor) ==
  LET a == trim(collapseWhitespace(replaceNbsp(toLowerCase(anchor))))
  IN IF a = <<>> THEN TRUE
     ELSE IF a \in genericPhrases THEN TRUE
     ELSE IF vaguePatterns(a) THEN TRUE
     ELSE IF countNonEmpty(splitSpace(a)) < 2 THEN TRUE
     ELSE IF AllDigits(a) THEN TRUE
     ELSE FALSE

stopwords ==
  { <<"a">>, <<"o">>, <<"o", "s">>, <<"a", "s">>,
    <<"u", "m">>, <<"u", "m", "a">>, <<"u", "n", "s">>, <<"u", "m", "a", "s">>,
    <<"d", "e">>, <<"d", "o">>, <<"d", "a">>, <<"d", "o", "s">>,
    <<"d", "a", "s">>, <<"n", "o">>, <<"n", "a">>, <<"n", "o", "s">>,
    <<"n", "a", "s">>, <<"e", "m">>, <<"p", "a", "r", "a">>, <<"p", "o", "r">>,
    <<"c", "o", "m">>, <<"s", "e", "m">>, <<"e">>, <<"o", "u">>,
    <<"q", "u", "e">>, <<"c", "o", "m", "o">>, <<"m", "a", "i", "s">>, <<"m", "e", "n", "o", "s">>,
    <<"s", "o", "b", "r", "e">>, <<"a", "t", "e_acute">>, <<"e", "n", "t", "r", "e">>, <<"t", "a", "m", "b", "e_acute", "m">>,
    <<"v", "e", "j", "a">>, <<"c", "o", "n", "f", "i", "r", "a">> }

\* tokenize of anchorTokenOverlap (t.trim() changes nothing: the pieces of a
\* split on spaces of a normalized string hold no white space)
overlapTokenize(v) ==
  filterTokens(
    splitSpace(trim(collapseWhitespace(replaceNonToken(replaceNbsp(toLowerCase(v)))))),
    stopwords)

anchorTokenOverlap(anchor, candidateContent) ==
  LET aTokens == overlapTokenize(anchor)
  IN IF aTokens = <<>> THEN [overlapCount |-> 0, anchorTokenCount |-> 0]
     ELSE [overlapCount |-> countIn(aTokens, Range(overlapTokenize(candidateContent))),
           anchorTokenCount |-> Len(aTokens)]

\* minOverlap of judgeCandidatesNode
minOverlap(anchorTokenCount) ==
  IF anchorTokenCount >= 4 THEN 2 ELSE IF anchorTokenCount >= 2 THEN 1 ELSE 0

\* ---------------------------------------------------------------------
\* The inputs of a run
\* ---------------------------------------------------------------------

\* The longest list of ranked candidates handed to judgeCandidatesNode
MaxCands == 2

BlockP0 ==
  [id |-> "b:0:p:p0", type |-> "paragraph", text |-> <<"s", "e", "o", " ", "l", "i", "n", "k">>, containsLink |-> FALSE]
BlockLi0 ==
  [id |-> "b:1:li:ul0/li0", type |-> "list_item", text |-> <<"s", "e", "o", " ", "g", "u", "i", "a">>, containsLink |-> FALSE]
BlockP1 ==
  [id |-> "b:2:p:p1", type |-> "paragraph", text |-> <<"s", "e", "o", " ", "l", "i", "n", "k", " ", "g", "u", "i", "a">>, containsLink |-> TRUE]

\* The lists toPrincipalBlocks can hand over: paragraphs and list items in
\* document order, with the distinct ids stableId gives them and the
\* normalized, non-empty text parseHtmlToBlocks gives them.
BlockLists ==
  { <<>>, <<BlockP1>>, <<BlockP0, BlockP1>>, <<BlockP0, BlockLi0, BlockP1>> }

\* state.principalContent when no blocks are given (legacy fallback)
LegacyContent == <<"s", "e", "o", " ", "l", "i", "n", "k", " ", "g", "u", "i", "a">>

UrlA == <<"u", "/", "a">>
UrlB == <<"u", "/", "b">>
UrlC == <<"u", "/", "c">>

\* Scored candidates; score is the cosine similarity in tenths.
CandA == [url |-> UrlA, content |-> <<"s", "e", "o", " ", "l", "i", "n", "k", " ", "a", "q", "u", "i">>, score |-> 9]
CandB == [url |-> UrlB, content |-> <<"s", "e", "o", " ", "g", "u", "i", "a">>, score |-> 7]
CandC == [url |-> UrlC, content |-> <<"d", "e">>, score |-> 3]
Candidates == {CandA, CandB, CandC}

\* ---------------------------------------------------------------------
\* scoreCandidatesNode: the selection of the scored candidates.  A
\* candidate is an object of the array "scored"; it is named here by its
\* position in that array, so that two candidates with equal fields stay
\* two candidates, as two objects do for Array.includes.
\* ---------------------------------------------------------------------

\* An optional number of the run's input: absent, or given
NoOption == [given |-> FALSE, value |-> 0]
Option(v) == [given |-> TRUE, value |-> v]

\* 0.2, in the tenths the scores are counted in
DefaultThreshold == 2
DefaultMaxCandidates == 30

\* state.similarityThreshold ?? 0.2
thresholdOf(opt) == IF opt.given THEN opt.value ELSE DefaultThreshold

\* state.maxCandidates ?? 30
maxCandidatesOf(opt) == IF opt.given THEN opt.value ELSE DefaultMaxCandidates

Min(a, b) == IF a <= b THEN a ELSE b

\* Mutant: a score equal to the threshold does not pass
aboveThreshold(c, threshold) == c.score > threshold

\* .filter((c) => c.score >= threshold)
passesThreshold(c, threshold) == c.score >= threshold

\* The positions of scored that pass the threshold, in the order of scored
RECURSIVE filterByThreshold(_, _, _)
filterByThreshold(scored, threshold, n) ==
  IF n = 0 THEN <<>>
  ELSE LET rest == filterByThreshold(scored, threshold, n - 1)
       IN IF passesThreshold(scored[n], threshold) THEN Append(rest, n) ELSE rest

\* Mutant: the comparator is a.score - b.score
insertByScoreAscending(scored, sorted, i) ==
  LET k == Cardinality({j \in 1..Len(sorted) : scored[sorted[j]].score <= scored[i].score})
  IN SubSeq(sorted, 1, k) \o <<i>> \o SubSeq(sorted, k + 1, Len(sorted))

\* One step of .sort((a, b) => b.score - a.score): position i goes behind
\* every position whose score is not lower (Array.prototype.sort is stable)
insertByScore(scored, sorted, i) ==
  LET k == Cardinality({j \in 1..Len(sorted) : scored[sorted[j]].score >= scored[i].score})
  IN SubSeq(sorted, 1, k) \o <<i>> \o SubSeq(sorted, k + 1, Len(sorted))

RECURSIVE sortByScore(_, _, _)
sortByScore(scored, positions, n) ==
  IF n = 0 THEN <<>>
  ELSE insertByScore(scored, sortByScore(scored, positions, n - 1), positions[n])

\* .slice(0, n), for n >= 0
slice(xs, n) == SubSeq(xs, 1, Min(n, Len(xs)))

\* The positions of "filtered" in "scored"
filteredPositions(scored, threshold, cap) ==
  LET passing == filterByThreshold(scored, threshold, Len(scored))
  IN slice(sortByScore(scored, passing, Len(passing)), cap)

\* const filtered = scored.filter(...).sort(...).slice(0, maxCandidates)
filtered(scored, threshold, cap) ==
  LET at == filteredPositions(scored, threshold, cap)
  IN [k \in 1..Len(at) |-> scored[at[k]]]

\* The arrays "scored" of at most MaxCands candidates
ScoredLists == UNION {[1..n -> Candidates] : n \in 0..MaxCands}

\* What scoreCandidatesNode hands to judgeCandidatesNode under the default
\* threshold and cap; the same url may be listed more than once, the graph
\* does not dedupe analysisUrls.
RankedLists ==
  { filtered(scored, thresholdOf(NoOption), maxCandidatesOf(NoOption)) : scored \in ScoredLists }

\* state.maxLinks: absent, 0.5 or 1.5
MaxLinksInputs == {Undefined, Explicit(1), Explicit(3)}

\* ---------------------------------------------------------------------
\* What the generator can answer
\* ---------------------------------------------------------------------

AnchorSeoLink == <<"s", "e", "o", " ", "l", "i", "n", "k">>
AnchorSeoLinkVariant == <<"S", "e", "o", NBSP, " ", "L", "i", "n", "k">>
AnchorGeneric == <<"c", "l", "i", "q", "u", "e", " ", "a", "q", "u", "i">>
AnchorSeoGuia == <<"s", "e", "o", " ", "g", "u", "i", "a">>
AnchorOffTopic == <<"n", "o", "v", "o", " ", "p", "o", "s", "t">>
\* An anchor of seven words, and one of one word
AnchorLong == <<"s", "e", "o", " ", "l", "i", "n", "k", " ", "s", "e", "o", " ", "l", "i", "n", "k", " ", "s", "e", "o", " ", "l", "i", "n", "k", " ", "s", "e", "o">>
AnchorWord == <<"s", "e", "o">>
Anchors ==
  { AnchorSeoLink, AnchorSeoLinkVariant, AnchorGeneric, AnchorSeoGuia, AnchorOffTopic,
    AnchorLong, AnchorWord }

\* The markdown link [text](url)
mdLink(text, url) == <<"[">> \o text \o <<"]", "(">> \o url \o <<")">>

\* The baseline text: a sentence with one link [a](u)
goodText(a, u) == <<"v", "e", "j", "a", " ">> \o mdLink(a, u)

\* Texts a generator can put in modified_block_text for anchor a and url u
ModifiedTexts(a, u) ==
  { goodText(a, u),
    mdLink(a, <<" ">> \o u \o <<" ">>) \o <<" ", "s", "e", "o">>,
    mdLink(a, u) \o <<" ">> \o mdLink(a, u),
    mdLink(a, UrlC \o <<"/", "x">>),
    mdLink(AnchorSeoGuia \o <<" ", "n", "o", "v", "o">>, u),
    <<"s", "e", "o", " ", "l", "i", "n", "k", " ", "g", "u", "i", "a">> }

\* The text with its first character replaced: one character of difference
changeFirst(text) == <<"x">> \o Tail(text)

ModelReason == "model reason"
OtherBlockId == "b:9:p:p9"

\* Raw generator outcomes: llm.invoke throws; the text holds no {...}; the
\* text between the braces is not JSON; the JSON fails DecisionSchema; the
\* JSON is a decision.
NoDecision ==
  [ok |-> FALSE, block_id |-> "", anchor |-> <<>>, original_block_text |-> <<>>,
   modified_block_text |-> <<>>, reason |-> ""]

Decision(ok, blockId, anchor, original, modified, reason) ==
  [kind |-> "decision",
   data |-> [ok |-> ok, block_id |-> blockId, anchor |-> anchor,
             original_block_text |-> original, modified_block_text |-> modified,
             reason |-> reason]]

\* The generator was not invoked for the candidate
NoCall == [kind |-> "noCall", data |-> NoDecision]

ReasonDensity == "Limite maximo de densidade de links atingido."

Responses(candidate, block, ids) ==
  { [kind |-> k, data |-> NoDecision] : k \in {"throws", "noJson", "malformed", "badSchema"} }
  \cup UNION { { Decision(TRUE, block.id, a, block.text, m, ModelReason) :
                   m \in ModifiedTexts(a, candidate.url) } :
                 a \in {AnchorSeoLink, AnchorGeneric} }
  \cup { Decision(TRUE, block.id, a, block.text, goodText(a, candidate.url), ModelReason) :
           a \in Anchors }
  \cup { Decision(TRUE, block.id, a, o, goodText(a, candidate.url), ModelReason) :
           a \in {AnchorSeoLink, AnchorGeneric},
           o \in {block.text \o <<" ">>, changeFirst(block.text)} }
  \cup { Decision(TRUE, id, AnchorSeoLink, block.text,
                  goodText(AnchorSeoLink, candidate.url), ModelReason) :
           id \in (ids \cup {OtherBlockId}) \ {block.id} }
  \cup { Decision(FALSE, block.id, AnchorSeoLink, block.text,
                  goodText(AnchorSeoLink, candidate.url), r) :
           r \in {ModelReason, ReasonDensity} }
  \cup { Decision(FALSE, block.id, AnchorSeoLink, changeFirst(block.text),
                  goodText(AnchorSeoLink, candidate.url), ModelReason) }

\* ---------------------------------------------------------------------
\* Rejection reasons of judgeCandidatesNode (accents dropped)
\* ---------------------------------------------------------------------

ReasonUrlUsed == "URL ja selecionada anteriormente neste conteudo."
ReasonNoBlocks == "Pipeline por blocos nao disponivel (principalBlocks ausente)."
ReasonNoEligible == "Nao ha blocos elegiveis (paragrafos/listas sem links) para inserir novos links."
ReasonNoTarget == "Falha ao selecionar um bloco alvo para insercao."
ReasonBlockUsed == "Bloco alvo ja utilizado por outro link."
ReasonInvalid == "Falha ao validar a resposta do modelo (JSON invalido)."
ReasonIdDrift == "Modelo retornou block_id diferente do solicitado."
ReasonSnapshot == "Modelo nao copiou o texto original do bloco exatamente (auditoria falhou)."
ReasonLinkShape == "O bloco modificado deve conter exatamente 1 link em Markdown apontando para a URL candidata."
ReasonAnchorMismatch == "A ancora retornada precisa corresponder ao texto do link em Markdown."
ReasonGeneric == "Ancora rejeitada por ser generica/ambigua."
ReasonTopical == "Ancora rejeitada por baixa aderencia tematica ao conteudo candidato."
ReasonAnchorEmpty == "Ancora vazia apos normalizacao."
ReasonAnchorUsed == "Ancora ja utilizada anteriormente."
ReasonBlockUsedFinal == "Bloco ja utilizado por outro link (mesmo bloco)."
ReasonExec == "Erro de execucao no agente SEO (block-graph)."

\* ---------------------------------------------------------------------
\* The state of one run of judgeCandidatesNode
\* ---------------------------------------------------------------------

VARIABLES
  principalBlocks,        \* state.principalBlocks
  scoredCandidates,       \* state.scoredCandidates
  maxLinksInput,          \* state.maxLinks
  pc,                     \* "judge" while the node runs, "end" once it returned
  idx,                    \* how many candidates the for loop has handled
  edits,
  rejected,
  usedUrls,
  usedBlockIds,
  usedAnchorsNormalized,
  response,               \* what the generator answered for the last candidate
  invocations             \* the candidates llm.invoke was called for, in call order

\* The state of the nodes before judgeCandidatesNode
VARIABLES
  analysisUrls,           \* state.analysisUrls
  analysisContents,       \* state.analysisContents
  similarity,             \* cosineSimilarity of each candidate, in tenths
  similarityThreshold,    \* state.similarityThreshold
  maxCandidates,          \* state.maxCandidates
  embedded                \* the positions of analysisUrls handed to embedBatch

\* The state of one run of a worker pool (fetchMany or mapWithConcurrency)
VARIABLES
  poolKind,               \* which pool runs: "none", "fetchMany", "mapWithConcurrency"
  items,                  \* urls / items
  concurrency,
  cursor,                 \* fetchMany: the next index to take
  workers,                \* fetchMany: what each worker does
  activeCount,            \* ConcurrencyLimiter.activeCount
  queue,                  \* ConcurrencyLimiter.queue, as the indices that wait
  taskState,              \* where the task of each index stands
  results,                \* the results array
  writes,                 \* how often each slot of results was assigned
  settled                 \* the promise the pool returned

\* The state of one call of fetchWithRetry
VARIABLES
  retry,                  \* the RetryOptions of the call
  fetchPc,                \* "idle", "request", "sleep", "returned", "thrown"
  attempt,                \* the loop variable
  requests,               \* how many times fetchWithTimeout was called
  waits,                  \* the delays slept so far, in ms
  lastResponse,           \* what the last request ended in
  lastError               \* the variable lastError

judgeVars ==
  <<principalBlocks, scoredCandidates, maxLinksInput, pc, idx, edits, rejected,
    usedUrls, usedBlockIds, usedAnchorsNormalized, response, invocations>>

rankVars ==
  <<analysisUrls, analysisContents, similarity, similarityThreshold, maxCandidates,
    embedded>>

poolVars ==
  <<poolKind, items, concurrency, cursor, workers, activeCount, queue, taskState,
    results, writes, settled>>

retryVars == <<retry, fetchPc, attempt, requests, waits, lastResponse, lastError>>

\* The state of one call of highlightDiffWordsToHtml
VARIABLES
  originalText,           \* input.originalText
  modifiedMarkdown,       \* input.modifiedMarkdown
  diffPc,                 \* "idle", "call", "returned"
  unchangedMask,          \* the local unchangedMask
  marked,                 \* the local marked
  diffHtml                \* the string returned

diffVars == <<originalText, modifiedMarkdown, diffPc, unchangedMask, marked, diffHtml>>

\* The state of one call of applyBlockEditsToHtml
VARIABLES
  htmlContent,            \* input.htmlContent, as the element tree it parses to
  rootId,                 \* the rootId option of extraction and rendering
  parsedBlocks,           \* what parseHtmlToBlocks returned for htmlContent
  blockEdits,             \* input.edits
  preserveExistingLinks,  \* input.preserveExistingLinks: "undefined", "true", "false"
  editIdx,                \* how many edits the for loop has handled
  originalView,           \* the content of each element of originalDom
  linkedView,             \* the content of each element of linkedDom
  modifiedView,           \* the content of each element of modifiedDom
  applied,                \* the four counters
  renderPc                \* "idle", "loop", "returned"

renderVars ==
  <<htmlContent, rootId, parsedBlocks, blockEdits, preserveExistingLinks, editIdx,
    originalView, linkedView, modifiedView, applied, renderPc>>

\* The module state of serpapi-client.ts and the calls of fetchSerpApi
VARIABLES
  cache,                  \* the Map "cache": its entries in insertion order
  clock,                  \* what Date.now() returns, in half hours
  calls                   \* the calls of fetchSerpApi made so far

cacheVars == <<cache, clock, calls>>

viewVars == <<diffVars, renderVars, cacheVars>>

vars == <<judgeVars, rankVars, poolVars, retryVars, viewVars>>

\* No call of highlightDiffWordsToHtml runs
DiffIdle ==
  /\ originalText = <<>>
  /\ modifiedMarkdown = <<>>
  /\ diffPc = "idle"
  /\ unchangedMask = <<>>
  /\ marked = <<>>
  /\ diffHtml = <<>>

NoCounters ==
  [appliedLinked |-> 0, appliedModified |-> 0, skippedAlreadyLinked |-> 0,
   skippedBlockNotFound |-> 0]

\* No call of applyBlockEditsToHtml runs
RenderIdle ==
  /\ htmlContent = <<>>
  /\ rootId = "root"
  /\ parsedBlocks = <<>>
  /\ blockEdits = <<>>
  /\ preserveExistingLinks = "undefined"
  /\ editIdx = 0
  /\ originalView = <<>>
  /\ linkedView = <<>>
  /\ modifiedView = <<>>
  /\ applied = NoCounters
  /\ renderPc = "idle"

\* The render engine does not run
\* fetchSerpApi was not called
CacheIdle ==
  /\ cache = <<>>
  /\ clock = 0
  /\ calls = <<>>

ViewIdle == DiffIdle /\ RenderIdle /\ CacheIdle

\* The block graph does not run
GraphIdle ==
  /\ principalBlocks = <<>>
  /\ scoredCandidates = <<>>
  /\ maxLinksInput = Undefined
  /\ pc = "render"
  /\ idx = 0
  /\ edits = <<>>
  /\ rejected = <<>>
  /\ usedUrls = {}
  /\ usedBlockIds = {}
  /\ usedAnchorsNormalized = {}
  /\ response = NoCall
  /\ invocations = <<>>
  /\ analysisUrls = <<>>
  /\ analysisContents = <<>>
  /\ similarity = <<>>
  /\ similarityThreshold = NoOption
  /\ maxCandidates = NoOption
  /\ embedded = {}

\* No worker pool runs
PoolIdle ==
  /\ poolKind = "none"
  /\ items = <<>>
  /\ concurrency = 1
  /\ cursor = 0
  /\ workers = <<>>
  /\ activeCount = 0
  /\ queue = <<>>
  /\ taskState = <<>>
  /\ results = <<>>
  /\ writes = <<>>
  /\ settled = "pending"

\* No request was made yet
NoResponse == [threw |-> FALSE, status |-> 0, bodyFails |-> FALSE]

\* "let lastError: unknown", not assigned yet
NoError == [kind |-> "undefined", status |-> 0]

\* No call of fetchWithRetry runs
RetryIdle ==
  /\ retry = [maxRetries |-> NoOption, initialDelayMs |-> NoOption, maxDelayMs |-> NoOption]
  /\ fetchPc = "idle"
  /\ attempt = 0
  /\ requests = 0
  /\ waits = <<>>
  /\ lastResponse = NoResponse
  /\ lastError = NoError

inputs == <<principalBlocks, scoredCandidates, maxLinksInput>>

\* extractPrincipalNode: the blocks' texts joined by a blank line, or the
\* legacy text when there are no blocks
principalContent ==
  IF Len(principalBlocks) > 0
  THEN trim(join([i \in 1..Len(principalBlocks) |-> principalBlocks[i].text], <<NL, NL>>))
  ELSE LegacyContent

hasBlocks == Len(principalBlocks) > 0

\* Mutant: a block that already holds a link is eligible
IsEligibleIgnoringLinks(b) == b.type = "paragraph" \/ b.type = "list_item"

IsEligible(b) == (b.type = "paragraph" \/ b.type = "list_item") /\ ~b.containsLink

eligibleBlocks == IF hasBlocks THEN SelectSeq(principalBlocks, IsEligible) ELSE <<>>

maxLinks == computeMaxLinks(principalContent, maxLinksInput)

\* remainingBlocks and the call of pickBestBlock
bestBlockFor(candidate) ==
  LET remainingBlocks == SelectSeq(eligibleBlocks, LAMBDA b : b.id \notin usedBlockIds)
  IN pickBestBlock(IF Len(remainingBlocks) > 0 THEN remainingBlocks ELSE eligibleBlocks,
                   candidate.content)

Pass == "pass"

\* Mutant: the density check is off by one
densityExceeded == Len(edits) > maxLinks

\* if (edits.length >= maxLinks)
densityReached == Len(edits) >= maxLinks

\* if (usedUrls.has(candidate.url))
urlUsed(candidate) == candidate.url \in usedUrls

\* Mutant: the block picked is not looked up in usedBlockIds
blockNeverUsed(bestBlock) == FALSE

\* if (usedBlockIds.has(bestBlock.id))
blockUsed(bestBlock) == bestBlock.id \in usedBlockIds

\* Mutant: the url check comes before the density check
preGenerationUrlFirst(candidate) ==
  IF urlUsed(candidate) THEN ReasonUrlUsed
  ELSE IF densityReached THEN ReasonDensity
  ELSE IF ~hasBlocks THEN ReasonNoBlocks
  ELSE IF Len(eligibleBlocks) = 0 THEN ReasonNoEligible
  ELSE IF bestBlockFor(candidate) = Null THEN ReasonNoTarget
  ELSE IF blockUsed(bestBlockFor(candidate)) THEN ReasonBlockUsed
  ELSE Pass

\* The checks of one loop iteration before the generator is invoked: the
\* reason of the rejection, or Pass.
preGeneration(candidate) ==
  IF densityReached THEN ReasonDensity
  ELSE IF urlUsed(candidate) THEN ReasonUrlUsed
  ELSE IF ~hasBlocks THEN ReasonNoBlocks
  ELSE IF Len(eligibleBlocks) = 0 THEN ReasonNoEligible
  ELSE IF bestBlockFor(candidate) = Null THEN ReasonNoTarget
  ELSE IF blockUsed(bestBlockFor(candidate)) THEN ReasonBlockUsed
  ELSE Pass

\* llm.invoke rejects or JSON.parse throws: control goes to the catch block
generationThrows(resp) == resp.kind \in {"throws", "malformed"}

\* if (!parsed?.success): no {...} in the text, or DecisionSchema fails
parseFails(resp) == resp.kind # "decision"

\* Mutant: the returned block id is not compared with the requested one
idNeverDrifted(decision, bestBlock) == FALSE

\* if (decision.block_id !== bestBlock.id)
idDrifted(decision, bestBlock) == decision.block_id # bestBlock.id

\* Mutant: the snapshot is compared by length only
snapshotLengthDrifted(decision, bestBlock) ==
  Len(trim(decision.original_block_text)) # Len(trim(bestBlock.text))

\* if (decision.original_block_text.trim() !== bestBlock.text.trim())
snapshotDrifted(decision, bestBlock) ==
  trim(decision.original_block_text) # trim(bestBlock.text)

\* if (!decision.modified_block_text.includes(`[${decision.anchor}](`))
anchorNotInLink(decision) ==
  ~includes(decision.modified_block_text, <<"[">> \o decision.anchor \o <<"]", "(">>)

\* if (overlapCount < minOverlap)
offTopic(decision, candidate) ==
  LET overlap == anchorTokenOverlap(decision.anchor, candidate.content)
  IN overlap.overlapCount < minOverlap(overlap.anchorTokenCount)

\* if (usedAnchorsNormalized.has(anchorNormalized))
anchorUsed(decision) == normalizeAnchor(decision.anchor) \in usedAnchorsNormalized

\* if (usedBlockIds.has(decision.block_id))
blockUsedAgain(decision) == decision.block_id \in usedBlockIds

\* The try block of one loop iteration, from the generator's answer on: the
\* reason of the rejection, or Pass.
auditResponse(candidate, bestBlock, resp) ==
  LET decision == resp.data
  IN IF generationThrows(resp) THEN ReasonExec
     ELSE IF parseFails(resp) THEN ReasonInvalid
     ELSE IF ~decision.ok THEN decision.reason
     ELSE IF idDrifted(decision, bestBlock) THEN ReasonIdDrift
     ELSE IF snapshotDrifted(decision, bestBlock) THEN ReasonSnapshot
     ELSE IF ~ensureSingleMarkdownLink(decision.modified_block_text, candidate.url)
          THEN ReasonLinkShape
     ELSE IF anchorNotInLink(decision) THEN ReasonAnchorMismatch
     ELSE IF isGenericAnchor(decision.anchor) THEN ReasonGeneric
     ELSE IF offTopic(decision, candidate) THEN ReasonTopical
     ELSE IF Len(normalizeAnchor(decision.anchor)) = 0 THEN ReasonAnchorEmpty
     ELSE IF anchorUsed(decision) THEN ReasonAnchorUsed
     ELSE IF blockUsedAgain(decision) THEN ReasonBlockUsedFinal
     ELSE Pass

\* Mutant: the url of an accepted edit is not recorded
usedUrlsAfterForgotten(candidate) == usedUrls

\* usedUrls.add(candidate.url)
usedUrlsAfter(candidate) == usedUrls \cup {candidate.url}

\* Mutant: the block of an accepted edit is not recorded
usedBlockIdsAfterForgotten(decision) == usedBlockIds

\* usedBlockIds.add(decision.block_id)
usedBlockIdsAfter(decision) == usedBlockIds \cup {decision.block_id}

\* Mutant: the anchor is recorded as returned, not normalized
usedAnchorsAfterRaw(decision) == usedAnchorsNormalized \cup {decision.anchor}

\* usedAnchorsNormalized.add(anchorNormalized)
usedAnchorsAfter(decision) ==
  usedAnchorsNormalized \cup {normalizeAnchor(decision.anchor)}

Rejection(candidate, reason) ==
  [url |-> candidate.url, reason |-> reason, score |-> candidate.score]

\* edits.push({...}); overwriteBlock and metrics are copied through and
\* read by no check, they are left out.
EditOf(candidate, decision) ==
  [blockId |-> decision.block_id,
   targetUrl |-> candidate.url,
   anchor |-> decision.anchor,
   originalBlockText |-> decision.original_block_text,
   modifiedBlockText |-> decision.modified_block_text,
   justification |-> decision.reason]

BlockIds == {principalBlocks[i].id : i \in 1..Len(principalBlocks)}

\* Mutant: the generator is called before the local gates are looked at
invocationsAfterAlways(pre) == Append(invocations, idx + 1)

\* llm.invoke is reached only when no gate before it took "continue"
invocationsAfter(pre) ==
  IF pre = Pass THEN Append(invocations, idx + 1) ELSE invocations

\* The state the nodes before judgeCandidatesNode leave when every
\* candidate of analysisUrls was scored and kept.
RankedAll ==
  /\ analysisUrls = [i \in 1..Len(scoredCandidates) |-> scoredCandidates[i].url]
  /\ analysisContents = [i \in 1..Len(scoredCandidates) |-> scoredCandidates[i].content]
  /\ similarity = [i \in 1..Len(scoredCandidates) |-> scoredCandidates[i].score]
  /\ similarityThreshold = NoOption
  /\ maxCandidates = NoOption
  /\ embedded = 1..Len(scoredCandidates)

Init ==
  /\ principalBlocks \in BlockLists
  /\ scoredCandidates \in RankedLists
  /\ maxLinksInput \in MaxLinksInputs
  /\ pc = "judge"
  /\ idx = 0
  /\ edits = <<>>
  /\ rejected = <<>>
  /\ usedUrls = {}
  /\ usedBlockIds = {}
  /\ usedAnchorsNormalized = {}
  /\ response = NoCall
  /\ invocations = <<>>
  /\ RankedAll
  /\ PoolIdle
  /\ RetryIdle
  /\ ViewIdle

\* One iteration of "for (const candidate of state.scoredCandidates)"
JudgeCandidate ==
  /\ pc = "judge"
  /\ idx < Len(scoredCandidates)
  /\ \E candidate \in {scoredCandidates[idx + 1]} :
     \E pre \in {preGeneration(candidate)} :
     \E bestBlock \in {bestBlockFor(candidate)} :
        /\ invocations' = invocationsAfter(pre)
        /\ IF pre # Pass
           THEN /\ rejected' = Append(rejected, Rejection(candidate, pre))
                /\ response' = NoCall
                /\ UNCHANGED <<edits, usedUrls, usedBlockIds, usedAnchorsNormalized>>
           ELSE \E resp \in Responses(candidate, bestBlock, BlockIds) :
                  /\ response' = resp
                  /\ \E out \in {auditResponse(candidate, bestBlock, resp)} :
                        IF out # Pass
                        THEN /\ rejected' = Append(rejected, Rejection(candidate, out))
                             /\ UNCHANGED <<edits, usedUrls, usedBlockIds,
                                            usedAnchorsNormalized>>
                        ELSE /\ edits' = Append(edits, EditOf(candidate, resp.data))
                             /\ usedUrls' = usedUrlsAfter(candidate)
                             /\ usedBlockIds' = usedBlockIdsAfter(resp.data)
                             /\ usedAnchorsNormalized' = usedAnchorsAfter(resp.data)
                             /\ UNCHANGED rejected
  /\ idx' = idx + 1
  /\ UNCHANGED <<inputs, pc, rankVars, poolVars, retryVars, viewVars>>

\* "return { edits, rejected }" once the loop is over
ReturnJudge ==
  /\ pc = "judge"
  /\ idx = Len(scoredCandidates)
  /\ pc' = "end"
  /\ UNCHANGED <<inputs, idx, edits, rejected, usedUrls, usedBlockIds,
                 usedAnchorsNormalized, response, invocations>>
  /\ UNCHANGED <<rankVars, poolVars, retryVars, viewVars>>

Next == JudgeCandidate \/ ReturnJudge

Spec == Init /\ [][Next]_vars

\* ---------------------------------------------------------------------
\* Properties of the edit-proposal loop
\* ---------------------------------------------------------------------

Last(xs) == xs[Len(xs)]

\* The block of principalBlocks an edit belongs to (ids are distinct)
OwningBlocks(e) == {b \in Range(principalBlocks) : b.id = e.blockId}

\* C1: at every point of the loop, no two accepted edits have the same
\* blockId.
AtMostOneEditPerBlock ==
  \A i, j \in 1..Len(edits) : i # j => edits[i].blockId # edits[j].blockId

\* Two edits were accepted, on two blocks.
TwoEditsAccepted == Len(edits) = 2 /\ idx = 2

\* C2: no two accepted edits have the same targetUrl, also when the ranked
\* list holds the same url more than once.
AtMostOneEditPerTarget ==
  \A i, j \in 1..Len(edits) : i # j => edits[i].targetUrl # edits[j].targetUrl

\* The list holds one url twice; its first occurrence was accepted and the
\* second was rejected because the url was used.
DuplicateUrlRejected ==
  /\ idx = 2
  /\ scoredCandidates[1].url = scoredCandidates[2].url
  /\ Len(edits) = 1
  /\ Len(rejected) = 1
  /\ rejected[1].reason = ReasonUrlUsed

\* The normal form the claim describes: lowercase, U+00A0 to space, runs of
\* white space to one space, no leading or trailing white space.
AnchorNormalForm(a) == trim(collapseWhitespace(replaceNbsp(toLowerCase(a))))

\* C3: no two accepted edits have anchors that are equal after
\* normalization.
AnchorsUniqueNormalized ==
  \A i, j \in 1..Len(edits) :
    i # j => AnchorNormalForm(edits[i].anchor) # AnchorNormalForm(edits[j].anchor)

\* A candidate was rejected for an anchor that differs as a string from the
\* anchor of the accepted edit and equals it once normalized.
VariantAnchorRejected ==
  /\ Len(edits) = 1
  /\ Len(rejected) >= 1
  /\ Last(rejected).reason = ReasonAnchorUsed
  /\ response.kind = "decision"
  /\ response.data.anchor # edits[1].anchor
  /\ AnchorNormalForm(response.data.anchor) = AnchorNormalForm(edits[1].anchor)

\* C4 as stated: modifiedBlockText of every accepted edit holds exactly one
\* markdown link and the url of that link equals targetUrl.
SingleLinkExactUrl ==
  \A i \in 1..Len(edits) :
    LET links == matchAllLinks(edits[i].modifiedBlockText, 1)
    IN Len(links) = 1 /\ links[1].url = edits[i].targetUrl

\* C4 amended: modifiedBlockText of every accepted edit holds exactly one
\* markdown link and the url of that link, with the white space around it
\* removed, equals targetUrl.
SingleLinkTrimmedUrl ==
  \A i \in 1..Len(edits) :
    LET links == matchAllLinks(edits[i].modifiedBlockText, 1)
    IN Len(links) = 1 /\ trim(links[1].url) = edits[i].targetUrl

\* An edit was accepted whose link url is targetUrl between spaces.
PaddedUrlAccepted ==
  \E i \in 1..Len(edits) :
    LET links == matchAllLinks(edits[i].modifiedBlockText, 1)
    IN /\ Len(links) = 1
       /\ links[1].url # edits[i].targetUrl
       /\ trim(links[1].url) = edits[i].targetUrl

\* C5: the number of accepted edits never exceeds maxLinks, and once it has
\* reached maxLinks every further candidate is rejected with the
\* density-limit reason and no edit is created.
DensityBound ==
  /\ [](Len(edits) <= maxLinks)
  /\ [][(idx' = idx + 1 /\ Len(edits) >= maxLinks) =>
          /\ edits' = edits
          /\ rejected' = Append(rejected,
                                Rejection(scoredCandidates[idx + 1], ReasonDensity))]_vars

\* With maxLinks = 1, one edit was accepted and the next candidate was
\* rejected by the density gate.
DensityRejected ==
  /\ maxLinks = 1
  /\ Len(edits) = 1
  /\ idx = 2
  /\ Last(rejected).reason = ReasonDensity

\* The gates of the specification, numbered in its order: gate k fails for
\* candidate c, selected block b and generator answer r.  A gate is looked
\* at only when the gates before it passed.
GateFails(k, c, b, r) ==
  LET d == r.data
  IN CASE k = 1 -> densityReached
       [] k = 2 -> urlUsed(c)
       [] k = 3 -> Len(eligibleBlocks) = 0
       [] k = 4 -> b = Null
       [] k = 5 -> blockUsed(b)
       [] k = 6 -> r.kind # "decision"
       [] k = 7 -> ~d.ok
       [] k = 8 -> idDrifted(d, b)
       [] k = 9 -> snapshotDrifted(d, b)
       [] k = 10 -> ~ensureSingleMarkdownLink(d.modified_block_text, c.url)
       [] k = 11 -> anchorNotInLink(d)
       [] k = 12 -> isGenericAnchor(d.anchor)
       [] k = 13 -> offTopic(d, c)
       [] k = 14 -> anchorUsed(d)
       [] k = 15 -> blockUsedAgain(d)

\* The first gate from k on that fails, 0 when all pass
RECURSIVE FirstFailing(_, _, _, _)
FirstFailing(k, c, b, r) ==
  IF k > 15 THEN 0
  ELSE IF GateFails(k, c, b, r) THEN k
  ELSE FirstFailing(k + 1, c, b, r)

\* The reason a rejection by gate k carries
GateReason(k, r) ==
  CASE k = 1 -> ReasonDensity
    [] k = 2 -> ReasonUrlUsed
    [] k = 3 -> IF hasBlocks THEN ReasonNoEligible ELSE ReasonNoBlocks
    [] k = 4 -> ReasonNoTarget
    [] k = 5 -> ReasonBlockUsed
    [] k = 6 -> IF r.kind \in {"throws", "malformed"} THEN ReasonExec ELSE ReasonInvalid
    [] k = 7 -> r.data.reason
    [] k = 8 -> ReasonIdDrift
    [] k = 9 -> ReasonSnapshot
    [] k = 10 -> ReasonLinkShape
    [] k = 11 -> ReasonAnchorMismatch
    [] k = 12 -> ReasonGeneric
    [] k = 13 -> ReasonTopical
    [] k = 14 -> ReasonAnchorUsed
    [] k = 15 -> ReasonBlockUsedFinal

SnapshotExact ==
  /\ [][(/\ idx' = idx + 1
         /\ response'.kind = "decision"
         /\ response'.data.original_block_text #
              bestBlockFor(scoredCandidates[idx + 1]).text)
        => edits' = edits]_vars
  /\ [](\A i \in 1..Len(edits) :
          /\ OwningBlocks(edits[i]) # {}
          /\ \A b \in OwningBlocks(edits[i]) : edits[i].originalBlockText = b.text)

\* C7 amended: a response whose original_block_text differs from the
\* selected block's text after both are trimmed creates no edit: it is
\* rejected by the snapshot audit unless the decision gate or the
\* block-identity audit rejects it first; every accepted edit's
\* originalBlockText equals the text of its block up to leading and
\* trailing white space.
SnapshotUpToTrim ==
  /\ [][(/\ idx' = idx + 1
         /\ response'.kind = "decision"
         /\ trim(response'.data.original_block_text) #
              trim(bestBlockFor(scoredCandidates[idx + 1]).text))
        => /\ edits' = edits
           /\ Len(rejected') = Len(rejected) + 1
           /\ Last(rejected').reason =
                IF ~response'.data.ok THEN response'.data.reason
                ELSE IF response'.data.block_id #
                          bestBlockFor(scoredCandidates[idx + 1]).id
                     THEN ReasonIdDrift
                     ELSE ReasonSnapshot]_vars
  /\ [](\A i \in 1..Len(edits) :
          /\ OwningBlocks(edits[i]) # {}
          /\ \A b \in OwningBlocks(edits[i]) :
               trim(edits[i].originalBlockText) = trim(b.text))

\* An edit was accepted whose originalBlockText is the block's text plus a
\* trailing space, and the next candidate was rejected by the snapshot audit.
SnapshotAuditActed ==
  /\ idx = 2
  /\ Len(edits) = 1
  /\ \E b \in OwningBlocks(edits[1]) : edits[1].originalBlockText # b.text
  /\ Len(rejected) = 1
  /\ rejected[1].reason = ReasonSnapshot
  /\ response.kind = "decision"

\* The content audits of a decision d for candidate c and requested block b
ContentAuditsPass(c, b, d) ==
  /\ ~snapshotDrifted(d, b)
  /\ ensureSingleMarkdownLink(d.modified_block_text, c.url)
  /\ ~anchorNotInLink(d)
  /\ ~isGenericAnchor(d.anchor)
  /\ ~offTopic(d, c)
  /\ ~anchorUsed(d)

\* C8 as stated: a response that passes every content audit and proposes
\* the block_id of an accepted edit is rejected with a block-already-used
\* reason.
ReproposedBlockRejectedAsReuse ==
  [][(/\ idx' = idx + 1
      /\ response'.kind = "decision"
      /\ response'.data.ok
      /\ response'.data.block_id \in {edits[i].blockId : i \in 1..Len(edits)}
      /\ ContentAuditsPass(scoredCandidates[idx + 1],
                           bestBlockFor(scoredCandidates[idx + 1]), response'.data))
     => /\ edits' = edits
        /\ Last(rejected').reason \in {ReasonBlockUsed, ReasonBlockUsedFinal}]_vars

\* C8 amended: a response that proposes the block_id of an accepted edit is
\* rejected by the block-identity audit (the returned block_id differs from
\* the requested one), never by a block-reuse gate, and creates no edit.
ReproposedBlockRejectedAsDrift ==
  [][(/\ idx' = idx + 1
      /\ response'.kind = "decision"
      /\ response'.data.ok
      /\ response'.data.block_id \in {edits[i].blockId : i \in 1..Len(edits)})
     => /\ edits' = edits
        /\ Len(rejected') = Len(rejected) + 1
        /\ Last(rejected').reason = ReasonIdDrift]_vars

\* The last candidate's response proposed the block of the accepted edit
\* and was rejected for it.
UsedBlockReproposed ==
  /\ Len(edits) = 1
  /\ Len(rejected) = 1
  /\ response.kind = "decision"
  /\ response.data.ok
  /\ response.data.block_id = edits[1].blockId
  /\ rejected[1].reason = ReasonIdDrift

CliqueAqui == <<"c", "l", "i", "q", "u", "e", " ", "a", "q", "u", "i">>

\* C9: a response whose anchor is "clique aqui" creates no edit and leaves
\* edits, usedUrls, usedBlockIds and usedAnchorsNormalized as they were, so
\* the selected block is still unused; when the response passes the audits
\* that come before the generic-anchor filter, the reason is the
\* generic-anchor reason.
GenericAnchorRejected ==
  [][(/\ idx' = idx + 1
      /\ response'.kind = "decision"
      /\ response'.data.ok
      /\ AnchorNormalForm(response'.data.anchor) = CliqueAqui)
     => LET c == scoredCandidates[idx + 1]
            b == bestBlockFor(c)
            d == response'.data
        IN /\ UNCHANGED <<edits, usedUrls, usedBlockIds, usedAnchorsNormalized>>
           /\ Len(rejected') = Len(rejected) + 1
           /\ b.id \notin usedBlockIds'
           /\ (/\ d.block_id = b.id
               /\ trim(d.original_block_text) = trim(b.text)
               /\ ensureSingleMarkdownLink(d.modified_block_text, c.url)
               /\ ~anchorNotInLink(d))
              => Last(rejected').reason = ReasonGeneric]_vars

\* With one eligible block, the first candidate was rejected for the
\* generic anchor and the second got its edit on that block.
BlockReusedAfterGenericAnchor ==
  /\ idx = 2
  /\ Len(eligibleBlocks) = 1
  /\ Len(rejected) = 1
  /\ rejected[1].reason = ReasonGeneric
  /\ Len(edits) = 1
  /\ edits[1].blockId = eligibleBlocks[1].id

\* C10: every accepted edit is on a block of type paragraph or list_item
\* that holds no link; no block that holds a link gets an edit; without an
\* eligible block every candidate is rejected.
EditsOnEligibleBlocks ==
  /\ \A i \in 1..Len(edits) :
       \E b \in Range(principalBlocks) :
         /\ b.id = edits[i].blockId
         /\ b.type \in {"paragraph", "list_item"}
         /\ ~b.containsLink
  /\ \A b \in Range(principalBlocks) :
       b.containsLink => \A i \in 1..Len(edits) : edits[i].blockId # b.id
  /\ (\A b \in Range(principalBlocks) :
        b.containsLink \/ b.type \notin {"paragraph", "list_item"})
     => (edits = <<>> /\ Len(rejected) = idx)

\* An edit was accepted for a candidate whose best match among all blocks
\* is a block that holds a link.
LinkedBlockPassedOver ==
  \E i \in 1..Len(edits) :
    \E k \in 1..idx :
      /\ scoredCandidates[k].url = edits[i].targetUrl
      /\ pickBestBlock(principalBlocks, scoredCandidates[k].content) # Null
      /\ pickBestBlock(principalBlocks, scoredCandidates[k].content).containsLink

\* ---------------------------------------------------------------------
\* scoreCandidatesNode
\* ---------------------------------------------------------------------

ReasonEmpty == "Conteudo vazio ou indisponivel."
ReasonBelow == "Similaridade abaixo do limiar ou fora do top."

\* What fetchMany can leave in a slot of analysisContents: nothing, white
\* space only, or a text
ContentInputs == { <<>>, <<" ", TAB>>, CandA.content }

\* The cosine similarities the embeddings can give, in tenths
ScoreInputs == {1, 2, 7}

\* state.similarityThreshold: absent or 0.7
ThresholdInputs == {NoOption, Option(7)}

\* state.maxCandidates: absent or 1
MaxCandidatesInputs == {NoOption, Option(1)}

\* c.content.trim().length > 0
hasContent(content) == Len(trim(content)) > 0

\* The positions of analysisUrls that validCandidates keeps, in order
RECURSIVE validPositions(_, _)
validPositions(contents, n) ==
  IF n = 0 THEN <<>>
  ELSE IF hasContent(contents[n])
       THEN Append(validPositions(contents, n - 1), n)
       ELSE validPositions(contents, n - 1)

\* const scored = validCandidates.map(...)
scoredOf(urls, contents, sim) ==
  LET valid == validPositions(contents, Len(urls))
  IN [k \in 1..Len(valid) |->
        [url |-> urls[valid[k]], content |-> contents[valid[k]], score |-> sim[valid[k]]]]

\* scored.filter((c) => !filtered.includes(c)).map(...)
belowOrOutside(scored, threshold, cap) ==
  LET at == filteredPositions(scored, threshold, cap)
      kept == {at[k] : k \in 1..Len(at)}
      RECURSIVE others(_)
      others(n) ==
        IF n = 0 THEN <<>>
        ELSE IF n \in kept THEN others(n - 1)
             ELSE Append(others(n - 1), Rejection(scored[n], ReasonBelow))
  IN others(Len(scored))

\* rejected: state.analysisUrls.map((url) => ({ url, reason }))
allEmpty(urls) == [i \in 1..Len(urls) |-> [url |-> urls[i], reason |-> ReasonEmpty]]

InitRank ==
  /\ principalBlocks = <<BlockP0, BlockP1>>
  /\ maxLinksInput = Undefined
  /\ \E n \in 0..MaxCands :
       /\ analysisUrls \in [1..n -> {UrlA, UrlB, UrlC}]
       /\ analysisContents \in [1..n -> ContentInputs]
       /\ similarity \in [1..n -> ScoreInputs \cup {0}]
       /\ \A i \in 1..n : similarity[i] = 0 <=> ~hasContent(analysisContents[i])
  /\ similarityThreshold \in ThresholdInputs
  /\ maxCandidates \in MaxCandidatesInputs
  /\ embedded = {}
  /\ pc = "score"
  /\ scoredCandidates = <<>>
  /\ idx = 0
  /\ edits = <<>>
  /\ rejected = <<>>
  /\ usedUrls = {}
  /\ usedBlockIds = {}
  /\ usedAnchorsNormalized = {}
  /\ response = NoCall
  /\ invocations = <<>>
  /\ PoolIdle
  /\ RetryIdle
  /\ ViewIdle

\* The node; its two results are appended to the state by the reducers
ScoreCandidates ==
  /\ pc = "score"
  /\ \E scored \in {scoredOf(analysisUrls, analysisContents, similarity)} :
       IF Len(scored) = 0
       THEN /\ scoredCandidates' = scoredCandidates \o <<>>
            /\ rejected' = rejected \o allEmpty(analysisUrls)
            /\ embedded' = {}
       ELSE /\ scoredCandidates' =
                 scoredCandidates \o filtered(scored, thresholdOf(similarityThreshold),
                                              maxCandidatesOf(maxCandidates))
            /\ rejected' =
                 rejected \o belowOrOutside(scored, thresholdOf(similarityThreshold),
                                            maxCandidatesOf(maxCandidates))
            /\ embedded' = Range(validPositions(analysisContents, Len(analysisUrls)))
  /\ pc' = "judge"
  /\ UNCHANGED <<principalBlocks, maxLinksInput, idx, edits, usedUrls, usedBlockIds,
                 usedAnchorsNormalized, response, invocations>>
  /\ UNCHANGED <<analysisUrls, analysisContents, similarity, similarityThreshold,
                 maxCandidates>>
  /\ UNCHANGED <<poolVars, retryVars, viewVars>>

NextRank == ScoreCandidates

SpecRank == InitRank /\ [][NextRank]_vars

\* ---------------------------------------------------------------------
\* Properties of the ranker
\* ---------------------------------------------------------------------

Scored == pc = "judge"

BlankPositions == {i \in 1..Len(analysisUrls) : ~hasContent(analysisContents[i])}

\* C11: once the ranker has run, every candidate whose content is empty or
\* white space only is in the rejected list with the empty-content reason
\* and was not handed to the embedder, whatever the other candidates hold.
EmptyContentRejected ==
  Scored =>
    \A i \in BlankPositions :
      /\ i \notin embedded
      /\ \E k \in 1..Len(rejected) :
           rejected[k].url = analysisUrls[i] /\ rejected[k].reason = ReasonEmpty

\* C12: once the ranker has run, the accepted list holds the candidates
\* with score >= threshold, in non-increasing score order and cut at the
\* cap; every other scored candidate is in the rejected list exactly once,
\* with the below-threshold reason and its score, at a score no accepted
\* candidate is below; no candidate is in both lists.
RankerPartitions ==
  Scored =>
    LET scored == scoredOf(analysisUrls, analysisContents, similarity)
        threshold == IF similarityThreshold.given THEN similarityThreshold.value ELSE 2
        cap == IF maxCandidates.given THEN maxCandidates.value ELSE 30
        passing == {k \in 1..Len(scored) : scored[k].score >= threshold}
        wanted == IF Cardinality(passing) <= cap THEN Cardinality(passing) ELSE cap
        key(r) == <<r.url, r.score>>
        count(x, xs) == Cardinality({k \in 1..Len(xs) : key(xs[k]) = x})
    IN IF Len(scored) = 0 THEN scoredCandidates = <<>>
       ELSE /\ Len(scoredCandidates) = wanted
            /\ \A k \in 1..Len(scoredCandidates) : scoredCandidates[k].score >= threshold
            /\ \A k \in 1..(Len(scoredCandidates) - 1) :
                 scoredCandidates[k].score >= scoredCandidates[k + 1].score
            /\ \A k \in 1..Len(rejected) :
                 /\ rejected[k].reason = ReasonBelow
                 /\ \A a \in 1..Len(scoredCandidates) :
                      rejected[k].score <= scoredCandidates[a].score
                 /\ Len(scoredCandidates) < cap => rejected[k].score < threshold
            /\ \A k \in 1..Len(scored) :
                 count(key(scored[k]), scoredCandidates) + count(key(scored[k]), rejected)
                   = count(key(scored[k]), scored)
            /\ Len(scoredCandidates) + Len(rejected) = Len(scored)

\* Two candidates pass the threshold, one of them exactly at it; the cap of
\* one keeps the first and rejects the other.
CutAtCap ==
  /\ Scored
  /\ Len(scoredCandidates) = 1
  /\ Len(rejected) = 1
  /\ rejected[1].reason = ReasonBelow
  /\ rejected[1].score = thresholdOf(similarityThreshold)

\* ---------------------------------------------------------------------
\* Properties of the order of the edit-proposal loop
\* ---------------------------------------------------------------------

\* C13: the loop takes the ranked candidates one at a time in
\* non-increasing score order: when candidate idx + 1 is judged, each of the
\* idx candidates before it has its edit or its rejection, the used urls,
\* block ids and anchors are those of the accepted edits, and the step
\* decides candidate idx + 1 and no other.
SequentialInScoreOrder ==
  /\ [](/\ \A i \in 1..(Len(scoredCandidates) - 1) :
             scoredCandidates[i].score >= scoredCandidates[i + 1].score
        /\ Len(edits) + Len(rejected) = idx
        /\ usedUrls = {edits[k].targetUrl : k \in 1..Len(edits)}
        /\ usedBlockIds = {edits[k].blockId : k \in 1..Len(edits)}
        /\ usedAnchorsNormalized = {normalizeAnchor(edits[k].anchor) : k \in 1..Len(edits)})
  /\ [][(edits' # edits \/ rejected' # rejected \/ idx' # idx) =>
          /\ idx' = idx + 1
          /\ \/ /\ Len(edits') = Len(edits) + 1
                /\ edits' = Append(edits, Last(edits'))
                /\ rejected' = rejected
                /\ Last(edits').targetUrl = scoredCandidates[idx + 1].url
             \/ /\ Len(rejected') = Len(rejected) + 1
                /\ rejected' = Append(rejected, Last(rejected'))
                /\ edits' = edits
                /\ Last(rejected').url = scoredCandidates[idx + 1].url
                /\ Last(rejected').score = scoredCandidates[idx + 1].score]_vars

\* The first candidate, of the higher score, was accepted; the second was
\* judged against what the first left and lost its anchor to it.
SecondJudgedAfterFirst ==
  /\ idx = 2
  /\ Len(edits) = 1
  /\ Len(rejected) = 1
  /\ scoredCandidates[1].score > scoredCandidates[2].score
  /\ edits[1].targetUrl = scoredCandidates[1].url
  /\ rejected[1].reason = ReasonAnchorUsed

\* C14: the generator is called at most once for a candidate; a step that
\* judges a candidate failing one of the gates before the generation
\* (density, url, eligibility, block selection, block reuse) calls it not
\* at all; a call is for the candidate being judged, and the loop then
\* moves on to the next candidate whatever the call gave.
GeneratorCalledAtMostOnce ==
  /\ [](/\ \A i, j \in 1..Len(invocations) : i # j => invocations[i] # invocations[j]
        /\ \A i \in 1..Len(invocations) : invocations[i] <= idx)
  /\ [][IF idx' = idx
        THEN invocations' = invocations
        ELSE \E pre \in {preGeneration(scoredCandidates[idx + 1])} :
               /\ idx' = idx + 1
               /\ IF pre = Pass
                  THEN /\ invocations' = Append(invocations, idx + 1)
                       /\ response' # NoCall
                  ELSE /\ invocations' = invocations
                       /\ response' = NoCall
                       /\ edits' = edits
                       /\ Len(rejected') = Len(rejected) + 1]_vars

\* The first candidate was accepted after one call; the second names the
\* same url and was rejected without a call.
GeneratorSkippedForUsedUrl ==
  /\ idx = 2
  /\ invocations = <<1>>
  /\ Len(edits) = 1
  /\ rejected # <<>>
  /\ Last(rejected).reason = ReasonUrlUsed
  /\ response = NoCall

\* ---------------------------------------------------------------------
\* The worker pools: fetchMany, and ConcurrencyLimiter under
\* mapWithConcurrency.  A step is what the event loop runs without
\* interruption: from the settling of one awaited promise to the next await.
\* ---------------------------------------------------------------------

\* The longest list of items a pool is run over
MaxItems == 3

\* The concurrency of a run
ConcurrencyInputs == {1, 2}

\* extractTextFromHtml makes one request; it throws when fetch throws
\* (status 0 here: transport failure, abort on timeout) and when the
\* response is not ok.  server lists the statuses the url's server would
\* answer to successive requests.
extractThrows(server) == server[1] < 200 \/ server[1] > 299

\* An item: its url (fetchMany skips an empty one), what its server
\* answers, and whether its task (extractTextFromHtml, the mapper) throws
Item(url, server) == [url |-> url, server |-> server, fails |-> extractThrows(server)]

ItemInputs ==
  { Item(UrlA, <<200>>), Item(UrlB, <<200>>), Item(UrlA, <<503, 200>>), Item(<<>>, <<200>>) }

\* A slot of "new Array(n)" that was never assigned
Hole == <<"empty slot">>

\* What the task of an item gives when it does not throw
textOf(item) == <<"t", "e", "x", "t", " ", "o", "f", " ">> \o item.url

\* Mutant: results.push(value), the results come in completion order
pushResult(res, index, value) ==
  LET k == CHOOSE k \in 1..Len(res) : res[k] = Hole /\ \A j \in 1..(k - 1) : res[j] # Hole
  IN [res EXCEPT ![k] = value]

\* results[index] = value
writeSlot(res, index, value) == [res EXCEPT ![index] = value]

\* The part of the pool's state a task's steps change
poolState ==
  [cursor |-> cursor, workers |-> workers, taskState |-> taskState,
   results |-> results, writes |-> writes, activeCount |-> activeCount,
   queue |-> queue]

\* fetchMany: one worker runs from the test of its while loop to its next
\* await, or to the end of the loop
RECURSIVE workerLoop(_, _)
workerLoop(p, w) ==
  IF p.cursor < Len(items)
  THEN LET index == p.cursor + 1
           q == [p EXCEPT !.cursor = p.cursor + 1]
       IN IF items[index].url = <<>>
          THEN workerLoop([q EXCEPT !.results = writeSlot(q.results, index, <<>>),
                                    !.writes[index] = @ + 1,
                                    !.taskState[index] = "done"], w)
          ELSE [q EXCEPT !.taskState[index] = "running",
                         !.workers[w] = [at |-> "awaiting", index |-> index]]
  ELSE [p EXCEPT !.workers[w] = [at |-> "done", index |-> 0]]

\* Array.from({ length: concurrency }).map(async () => ...): the workers
\* start one after the other, each up to its first await
RECURSIVE startWorkers(_, _)
startWorkers(p, w) ==
  IF w > concurrency THEN p ELSE startWorkers(workerLoop(p, w), w + 1)

\* Mutant: no try/catch around the fetch, the throw ends the worker
afterFetchUncaught(p, w) ==
  LET index == p.workers[w].index
  IN IF items[index].fails
     THEN [p EXCEPT !.taskState[index] = "failed",
                    !.workers[w] = [at |-> "done", index |-> 0]]
     ELSE workerLoop([p EXCEPT !.results = writeSlot(p.results, index, textOf(items[index])),
                               !.writes[index] = @ + 1,
                               !.taskState[index] = "done"], w)

\* fetchMany: the await of worker w settles; try/catch turns a throw into ""
afterFetch(p, w) ==
  LET index == p.workers[w].index
      value == IF items[index].fails THEN <<>> ELSE textOf(items[index])
  IN workerLoop([p EXCEPT !.results = writeSlot(p.results, index, value),
                          !.writes[index] = @ + 1,
                          !.taskState[index] = "done"], w)

\* Mutant: a slot is free while activeCount <= concurrency
hasFreeSlotInclusive(active, limit) == active <= limit

\* ConcurrencyLimiter.acquire: this.activeCount < this.concurrency
hasFreeSlot(active, limit) == active < limit

\* ConcurrencyLimiter.acquire, called for item i
acquire(p, i) ==
  IF hasFreeSlot(p.activeCount, concurrency)
  THEN [p EXCEPT !.activeCount = @ + 1, !.taskState[i] = "acquired"]
  ELSE [p EXCEPT !.queue = Append(@, i), !.taskState[i] = "queued"]

\* items.map((item, index) => limiter.run(...)): every run reaches its
\* "await this.acquire()" before any task starts
RECURSIVE acquireAll(_, _)
acquireAll(p, i) ==
  IF i > Len(items) THEN p ELSE acquireAll(acquire(p, i), i + 1)

\* ConcurrencyLimiter.release
release(p) ==
  LET q == [p EXCEPT !.activeCount = Max(0, @ - 1)]
  IN IF Len(q.queue) > 0
     THEN [q EXCEPT !.queue = Tail(@),
                    !.activeCount = @ + 1,
                    !.taskState[Head(q.queue)] = "acquired"]
     ELSE q

\* mapWithConcurrency: the mapper of item i settles; the slot is assigned
\* when it did not throw, and "finally" releases
afterTask(p, i) ==
  release(IF items[i].fails
          THEN [p EXCEPT !.taskState[i] = "failed"]
          ELSE [p EXCEPT !.results = writeSlot(p.results, i, textOf(items[i])),
                         !.writes[i] = @ + 1,
                         !.taskState[i] = "done"])

SetPool(p) ==
  /\ cursor' = p.cursor
  /\ workers' = p.workers
  /\ taskState' = p.taskState
  /\ results' = p.results
  /\ writes' = p.writes
  /\ activeCount' = p.activeCount
  /\ queue' = p.queue

InitPool ==
  /\ poolKind \in {"fetchMany", "mapWithConcurrency"}
  /\ \E n \in 0..MaxItems : items \in [1..n -> ItemInputs]
  /\ concurrency \in ConcurrencyInputs
  /\ cursor = 0
  /\ workers = IF poolKind = "fetchMany"
               THEN [w \in 1..concurrency |-> [at |-> "new", index |-> 0]]
               ELSE <<>>
  /\ activeCount = 0
  /\ queue = <<>>
  /\ taskState = [i \in 1..Len(items) |-> "pending"]
  /\ results = [i \in 1..Len(items) |-> Hole]
  /\ writes = [i \in 1..Len(items) |-> 0]
  /\ settled = "pending"
  /\ principalBlocks = <<>>
  /\ scoredCandidates = <<>>
  /\ maxLinksInput = Undefined
  /\ pc = "fetch"
  /\ idx = 0
  /\ edits = <<>>
  /\ rejected = <<>>
  /\ usedUrls = {}
  /\ usedBlockIds = {}
  /\ usedAnchorsNormalized = {}
  /\ response = NoCall
  /\ invocations = <<>>
  /\ analysisUrls = <<>>
  /\ analysisContents = <<>>
  /\ similarity = <<>>
  /\ similarityThreshold = NoOption
  /\ maxCandidates = NoOption
  /\ embedded = {}
  /\ RetryIdle
  /\ ViewIdle

PoolFrame ==
  UNCHANGED <<poolKind, items, concurrency, judgeVars, rankVars, retryVars, viewVars>>

\* fetchMany up to "await Promise.all(workers)"
FetchManyStart ==
  /\ poolKind = "fetchMany"
  /\ settled = "pending"
  /\ \A w \in 1..concurrency : workers[w].at = "new"
  /\ SetPool(startWorkers(poolState, 1))
  /\ UNCHANGED settled
  /\ PoolFrame

\* The fetch a worker waits for settles, and the worker goes on
FetchManySettle(w) ==
  /\ poolKind = "fetchMany"
  /\ workers[w].at = "awaiting"
  /\ SetPool(afterFetch(poolState, w))
  /\ UNCHANGED settled
  /\ PoolFrame

\* Promise.all(workers) resolves and fetchMany returns results
FetchManyReturn ==
  /\ poolKind = "fetchMany"
  /\ settled = "pending"
  /\ \A w \in 1..concurrency : workers[w].at = "done"
  /\ settled' = "resolved"
  /\ UNCHANGED <<cursor, workers, taskState, results, writes, activeCount, queue>>
  /\ PoolFrame

\* mapWithConcurrency up to "await Promise.all(...)"
MapStart ==
  /\ poolKind = "mapWithConcurrency"
  /\ settled = "pending"
  /\ Len(items) > 0
  /\ \A i \in 1..Len(items) : taskState[i] = "pending"
  /\ SetPool(acquireAll(poolState, 1))
  /\ UNCHANGED settled
  /\ PoolFrame

\* run() goes past "await this.acquire()" and calls the task
TaskBegin(i) ==
  /\ poolKind = "mapWithConcurrency"
  /\ taskState[i] = "acquired"
  /\ taskState' = [taskState EXCEPT ![i] = "running"]
  /\ UNCHANGED <<cursor, workers, results, writes, activeCount, queue, settled>>
  /\ PoolFrame

\* The mapper of a running task settles; a throw rejects the promise of
\* run(), and Promise.all rejects with the first rejection
TaskSettle(i) ==
  /\ poolKind = "mapWithConcurrency"
  /\ taskState[i] = "running"
  /\ SetPool(afterTask(poolState, i))
  /\ settled' = IF items[i].fails /\ settled = "pending" THEN "rejected" ELSE settled
  /\ PoolFrame

\* Promise.all resolves once every run() has resolved
MapReturn ==
  /\ poolKind = "mapWithConcurrency"
  /\ settled = "pending"
  /\ \A i \in 1..Len(items) : taskState[i] = "done"
  /\ settled' = "resolved"
  /\ UNCHANGED <<cursor, workers, taskState, results, writes, activeCount, queue>>
  /\ PoolFrame

NextPool ==
  \/ FetchManyStart
  \/ \E w \in 1..concurrency : FetchManySettle(w)
  \/ FetchManyReturn
  \/ MapStart
  \/ \E i \in 1..Len(items) : TaskBegin(i)
  \/ \E i \in 1..Len(items) : TaskSettle(i)
  \/ MapReturn

SpecPool == InitPool /\ [][NextPool]_vars

\* ---------------------------------------------------------------------
\* Properties of the worker pools
\* ---------------------------------------------------------------------

InFlight == {i \in 1..Len(items) : taskState[i] = "running"}

Processed == {i \in 1..Len(items) : taskState[i] \in {"done", "failed"}}

\* C15: at every point of a run, under every order in which the tasks
\* settle, at most "concurrency" tasks are in flight; the limiter's
\* activeCount never exceeds the limit and covers the tasks in flight.
AtMostConcurrencyInFlight ==
  /\ Cardinality(InFlight) <= concurrency
  /\ activeCount <= concurrency
  /\ poolKind = "mapWithConcurrency" => Cardinality(InFlight) <= activeCount

\* The limiter is full: as many tasks in flight as the limit allows, and an
\* item waits in the queue.
LimiterSaturated ==
  /\ poolKind = "mapWithConcurrency"
  /\ concurrency = 2
  /\ Cardinality(InFlight) = 2
  /\ Len(queue) > 0

\* C16: the promise a pool returned is settled only when every item has
\* been processed, with success or with failure.
SettlesAfterAllProcessed ==
  settled # "pending" => Processed = 1..Len(items)

\* What slot i holds when the run returns: the text of item i, or "" where
\* fetchMany skipped an empty url or caught a throw
expectedResult(i) ==
  IF poolKind = "fetchMany" /\ (items[i].url = <<>> \/ items[i].fails)
  THEN <<>>
  ELSE textOf(items[i])

DefaultMaxRetries == 3
DefaultInitialDelayMs == 1000
DefaultMaxDelayMs == 8000

\* The RetryOptions of a call; retryOn is left at its default
RetryInputs ==
  [maxRetries : {NoOption, Option(0), Option(1), Option(4)},
   initialDelayMs : {NoOption, Option(3000)},
   maxDelayMs : {NoOption, Option(5000)}]

maxRetriesOf(r) == IF r.maxRetries.given THEN r.maxRetries.value ELSE DefaultMaxRetries

initialDelayMsOf(r) ==
  IF r.initialDelayMs.given THEN r.initialDelayMs.value ELSE DefaultInitialDelayMs

maxDelayMsOf(r) == IF r.maxDelayMs.given THEN r.maxDelayMs.value ELSE DefaultMaxDelayMs

\* What one call of fetchWithTimeout can end in: a response of some status,
\* whose body may fail to be read, or a throw (transport failure, abort on
\* timeout)
ResponseInputs ==
  { [threw |-> FALSE, status |-> 200, bodyFails |-> FALSE],
    [threw |-> FALSE, status |-> 200, bodyFails |-> TRUE],
    [threw |-> FALSE, status |-> 404, bodyFails |-> FALSE],
    [threw |-> FALSE, status |-> 429, bodyFails |-> FALSE],
    [threw |-> FALSE, status |-> 503, bodyFails |-> FALSE],
    [threw |-> TRUE, status |-> 0, bodyFails |-> FALSE] }

\* response.ok
ok(r) == r.status >= 200 /\ r.status <= 299

defaultRetryOn(status) == status = 429 \/ (status >= 500 /\ status <= 599)

\* Mutant: the delay grows by initialDelayMs per attempt
computeDelayLinear(n, initialDelayMs, maxDelayMs) ==
  Min(initialDelayMs * (n + 1), maxDelayMs)

computeDelay(n, initialDelayMs, maxDelayMs) ==
  Min(initialDelayMs * (2 ^ n), maxDelayMs)

\* The error the try block throws for a response: the HTTP error, the
\* error of response.json()/text(), or what fetchWithTimeout threw
errorOf(r) ==
  IF r.threw THEN [kind |-> "transport", status |-> 0]
  ELSE IF ~ok(r) THEN [kind |-> "http", status |-> r.status]
  ELSE [kind |-> "body", status |-> r.status]

\* Mutant: lastError keeps the error of the first failed attempt
lastErrorKeptFirst(r) == IF lastError = NoError THEN errorOf(r) ELSE lastError

\* catch (err) { lastError = err; ... }
lastErrorAfter(r) == errorOf(r)

\* The try block reaches "await sleep(delay); continue" of the !response.ok
\* branch
retriesOnStatus(r) ==
  ~r.threw /\ ~ok(r) /\ defaultRetryOn(r.status) /\ attempt < maxRetriesOf(retry)

\* The try block returns the body
returnsBody(r) == ~r.threw /\ ok(r) /\ ~r.bodyFails

InitRetry ==
  /\ retry \in RetryInputs
  /\ fetchPc = "request"
  /\ attempt = 0
  /\ requests = 0
  /\ waits = <<>>
  /\ lastResponse = NoResponse
  /\ lastError = NoError
  /\ principalBlocks = <<>>
  /\ scoredCandidates = <<>>
  /\ maxLinksInput = Undefined
  /\ pc = "fetch"
  /\ idx = 0
  /\ edits = <<>>
  /\ rejected = <<>>
  /\ usedUrls = {}
  /\ usedBlockIds = {}
  /\ usedAnchorsNormalized = {}
  /\ response = NoCall
  /\ invocations = <<>>
  /\ analysisUrls = <<>>
  /\ analysisContents = <<>>
  /\ similarity = <<>>
  /\ similarityThreshold = NoOption
  /\ maxCandidates = NoOption
  /\ embedded = {}
  /\ PoolIdle
  /\ ViewIdle

RetryFrame == UNCHANGED <<retry, judgeVars, rankVars, poolVars, viewVars>>

\* One pass of the for loop, from fetchWithTimeout to the return, to the
\* sleep before the next pass, or to "throw lastError" behind the loop
FetchAttempt(r) ==
  /\ fetchPc = "request"
  /\ requests' = requests + 1
  /\ lastResponse' = r
  /\ IF returnsBody(r)
     THEN /\ fetchPc' = "returned"
          /\ UNCHANGED <<waits, lastError>>
     ELSE IF retriesOnStatus(r)
     THEN /\ fetchPc' = "sleep"
          /\ waits' = Append(waits, computeDelay(attempt, initialDelayMsOf(retry),
                                                 maxDelayMsOf(retry)))
          /\ UNCHANGED lastError
     ELSE /\ lastError' = lastErrorAfter(r)
          /\ IF attempt < maxRetriesOf(retry)
             THEN /\ fetchPc' = "sleep"
                  /\ waits' = Append(waits, computeDelay(attempt, initialDelayMsOf(retry),
                                                         maxDelayMsOf(retry)))
             ELSE /\ fetchPc' = "thrown"
                  /\ UNCHANGED waits
  /\ UNCHANGED attempt
  /\ RetryFrame

\* sleep(delay) is over: "continue" and attempt++
SleepOver ==
  /\ fetchPc = "sleep"
  /\ attempt' = attempt + 1
  /\ fetchPc' = "request"
  /\ UNCHANGED <<requests, waits, lastResponse, lastError>>
  /\ RetryFrame

NextRetry ==
  \/ \E r \in ResponseInputs : FetchAttempt(r)
  \/ SleepOver

SpecRetry == InitRetry /\ [][NextRetry]_vars

\* ---------------------------------------------------------------------
\* Properties of fetchWithRetry
\* ---------------------------------------------------------------------

\* C18: a retry (a sleep before a further request) follows only a 429 or
\* 5xx response or a transport or timeout failure, the failure to read the
\* body of a 2xx response counted as one; after any other 4xx response the
\* call makes no further request.
RetriesOnlyTransient ==
  fetchPc = "sleep" =>
    \/ lastResponse.threw
    \/ (lastResponse.status >= 200 /\ lastResponse.status <= 299 /\ lastResponse.bodyFails)
    \/ lastResponse.status = 429
    \/ (lastResponse.status >= 500 /\ lastResponse.status <= 599)

\* C19: with the default options a call makes at most 3 requests.
AtMostThreeAttempts ==
  ~retry.maxRetries.given => requests <= 3

\* C20: the k-th wait of a call (k = 0 for the first) is
\* min(initialDelayMs * 2^k, maxDelayMs), never above maxDelayMs; with the
\* defaults the waits are 1000, 2000, 4000 ms; and exactly one wait lies
\* between two consecutive requests.
BackoffDoubles ==
  LET initial == IF retry.initialDelayMs.given THEN retry.initialDelayMs.value ELSE 1000
      max == IF retry.maxDelayMs.given THEN retry.maxDelayMs.value ELSE 8000
  IN /\ \A k \in 0..(Len(waits) - 1) :
          /\ waits[k + 1] = (IF initial * (2 ^ k) <= max THEN initial * (2 ^ k) ELSE max)
          /\ waits[k + 1] <= max
     /\ (~retry.initialDelayMs.given /\ ~retry.maxDelayMs.given /\ ~retry.maxRetries.given) =>
          waits \in {<<>>, <<1000>>, <<1000, 2000>>, <<1000, 2000, 4000>>}
     /\ fetchPc \in {"request", "sleep"} => Len(waits) = requests
     /\ fetchPc \in {"returned", "thrown"} => Len(waits) = requests - 1

\* A call with the default options slept 1, 2 and 4 seconds between its
\* four requests.
ThreeWaitsSlept ==
  /\ retry = [maxRetries |-> NoOption, initialDelayMs |-> NoOption, maxDelayMs |-> NoOption]
  /\ waits = <<1000, 2000, 4000>>
  /\ requests = 4

\* C21: a call that ends by throwing throws the error of its last attempt,
\* the HTTP error of the last response's status or the last transport,
\* timeout or body error, after the last attempt the options allow; a call
\* returns a value only when its last attempt succeeded.
ThrowsLastError ==
  /\ fetchPc = "thrown" =>
       /\ requests = (IF retry.maxRetries.given THEN retry.maxRetries.value ELSE 3) + 1
       /\ lastError.kind # "undefined"
       /\ lastResponse.threw => lastError = [kind |-> "transport", status |-> 0]
       /\ (~lastResponse.threw /\ (lastResponse.status < 200 \/ lastResponse.status > 299)) =>
            lastError = [kind |-> "http", status |-> lastResponse.status]
       /\ (~lastResponse.threw /\ lastResponse.status >= 200 /\ lastResponse.status <= 299) =>
            lastError = [kind |-> "body", status |-> lastResponse.status]
  /\ fetchPc = "returned" =>
       /\ ~lastResponse.threw
       /\ lastResponse.status >= 200 /\ lastResponse.status <= 299
       /\ ~lastResponse.bodyFails

\* A call with the default options failed four times, the first three
\* attempts with a 503 whose sleep does not pass the catch block, and threw
\* the transport error of the fourth.
ThrownAfterRetries ==
  /\ fetchPc = "thrown"
  /\ ~retry.maxRetries.given
  /\ requests = 4
  /\ waits = <<1000, 2000, 4000>>
  /\ lastError = [kind |-> "transport", status |-> 0]

\* ---------------------------------------------------------------------
\* Properties of the candidate fetch
\* ---------------------------------------------------------------------

\* C22: a run of fetchMany never fails; while it has not returned it can
\* take a step; when it returns, every item was processed, the slot of an
\* item whose fetch threw holds the empty string and the slot of every
\* other fetched item holds its text.
FailedFetchYieldsEmpty ==
  poolKind = "fetchMany" =>
    /\ settled # "rejected"
    /\ \A i \in 1..Len(items) : taskState[i] # "failed"
    /\ settled = "pending" => ENABLED NextPool
    /\ settled = "resolved" =>
         \A i \in 1..Len(items) :
           /\ taskState[i] = "done"
           /\ (items[i].server[1] < 200 \/ items[i].server[1] > 299) => results[i] = <<>>
           /\ (items[i].server[1] = 200 /\ items[i].url # <<>>) =>
                results[i] = <<"t", "e", "x", "t", " ", "o", "f", " ">> \o items[i].url

\* fetchMany returned: the fetch of one item threw and left the empty
\* string, another item was fetched after it and holds its text.
BatchSurvivedFailure ==
  /\ poolKind = "fetchMany"
  /\ settled = "resolved"
  /\ \E i, j \in 1..Len(items) :
       /\ i < j
       /\ items[i].fails
       /\ results[i] = <<>>
       /\ ~items[j].fails
       /\ items[j].url # <<>>
       /\ results[j] = textOf(items[j])

\* C23: a candidate whose fetch fails with a 5xx status (or 429, or a
\* timeout) and would succeed on a retry the policy allows gets its text:
\* its slot is empty only when the retries are exhausted.
TransientFetchRetried ==
  (poolKind = "fetchMany" /\ settled = "resolved") =>
    \A i \in 1..Len(items) :
      (/\ items[i].url # <<>>
       /\ \E k \in 1..Len(items[i].server) : k <= 1 + 3 /\ items[i].server[k] = 200)
        => results[i] = <<"t", "e", "x", "t", " ", "o", "f", " ">> \o items[i].url

\* ---------------------------------------------------------------------
\* highlightDiffWordsToHtml: the word-level diff of the modified view
\* ---------------------------------------------------------------------

\* Fixed pieces of markup, each one element of an html string
OpenA == "<a href=\""
MidA == "\" target=\"_blank\" rel=\"noopener noreferrer\">"
CloseA == "</a>"
MarkModified == "<mark class=\"inlink-highlight-modified\">"
CloseMark == "</mark>"

\* The markers highlightDiffWordsToHtml puts around a changed token
OpenH == <<"[", "[", "H", "]", "]">>
CloseH == <<"[", "[", "/", "H", "]", "]">>

\* "[Trecho novo]"
Sentinel == <<"[", "T", "r", "e", "c", "h", "o", " ", "n", "o", "v", "o", "]">>

normalizeWhitespace(value) == trim(collapseWhitespace(replaceNbsp(value)))

RECURSIVE escapeHtml(_)
escapeHtml(value) ==
  IF value = <<>> THEN <<>>
  ELSE (CASE Head(value) = "&" -> <<"&", "a", "m", "p", ";">>
          [] Head(value) = "<" -> <<"&", "l", "t", ";">>
          [] Head(value) = ">" -> <<"&", "g", "t", ";">>
          [] Head(value) = "\"" -> <<"&", "q", "u", "o", "t", ";">>
          [] Head(value) = "'" -> <<"&", "#", "3", "9", ";">>
          [] OTHER -> <<Head(value)>>) \o escapeHtml(Tail(value))

\* markdown.replace(/\[([^\]]+)\]\(([^)]+)\)/g, ...) from position p on
RECURSIVE markdownLinkFrom(_, _)
markdownLinkFrom(markdown, p) ==
  IF p > Len(markdown) THEN <<>>
  ELSE LET m == linkAt(markdown, p)
       IN IF m.found
          THEN <<OpenA>> \o escapeHtml(m.url) \o <<MidA>> \o escapeHtml(m.text) \o <<CloseA>>
                 \o markdownLinkFrom(markdown, m.next)
          ELSE <<markdown[p]>> \o markdownLinkFrom(markdown, p + 1)

markdownLinkToHtml(markdown) == markdownLinkFrom(markdown, 1)

\* .filter(Boolean) on strings
RECURSIVE filterBoolean(_)
filterBoolean(xs) ==
  IF xs = <<>> THEN <<>>
  ELSE IF Head(xs) # <<>> THEN <<Head(xs)>> \o filterBoolean(Tail(xs))
       ELSE filterBoolean(Tail(xs))

tokenize(value) == filterBoolean(splitWhitespace(normalizeWhitespace(value)))

\* The table dp of lcsUnchangedMask
dpTable(a, b) ==
  LET dp[i \in 0..Len(a), j \in 0..Len(b)] ==
        IF i = 0 \/ j = 0 THEN 0
        ELSE IF a[i] = b[j] THEN dp[i - 1, j - 1] + 1
             ELSE Max(dp[i - 1, j], dp[i, j - 1])
  IN dp

\* Mutant: on a mismatch the walk steps left where the code steps up
RECURSIVE backtrackLeft(_, _, _, _, _, _)
backtrackLeft(a, b, dp, i, j, unchanged) ==
  IF ~(i > 0 /\ j > 0) THEN unchanged
  ELSE IF a[i] = b[j]
       THEN backtrackLeft(a, b, dp, i - 1, j - 1, [unchanged EXCEPT ![j] = TRUE])
       ELSE IF dp[i - 1, j] >= dp[i, j - 1]
            THEN backtrackLeft(a, b, dp, i, j - 1, unchanged)
            ELSE backtrackLeft(a, b, dp, i - 1, j, unchanged)

\* The while loop of lcsUnchangedMask
RECURSIVE backtrack(_, _, _, _, _, _)
backtrack(a, b, dp, i, j, unchanged) ==
  IF ~(i > 0 /\ j > 0) THEN unchanged
  ELSE IF a[i] = b[j]
       THEN backtrack(a, b, dp, i - 1, j - 1, [unchanged EXCEPT ![j] = TRUE])
       ELSE IF dp[i - 1, j] >= dp[i, j - 1]
            THEN backtrack(a, b, dp, i - 1, j, unchanged)
            ELSE backtrack(a, b, dp, i, j - 1, unchanged)

lcsUnchangedMask(a, b) ==
  backtrack(a, b, dpTable(a, b), Len(a), Len(b), [j \in 1..Len(b) |-> FALSE])

\* Mutant: only an original without tokens highlights everything
highlightAllWhenEmpty(original) == Len(tokenize(original)) = 0

highlightAll(original) ==
  Len(tokenize(original)) = 0 \/ normalizeWhitespace(original) = Sentinel

\* Mutant: the first token counts as changed whatever the mask says
tokenChangedFirst(all, mask, at) == all \/ ~mask[at] \/ at = 1

\* highlightAll || !unchangedMask[idx], at = idx + 1
tokenChanged(all, mask, at) == all \/ ~mask[at]

markToken(t, changed) ==
  IF changed THEN OpenH \o escapeHtml(t) \o CloseH ELSE escapeHtml(t)

\* s.replace(pattern, by) with a global literal pattern; by is one element
RECURSIVE replaceAll(_, _, _)
replaceAll(s, pattern, by) ==
  IF s = <<>> THEN <<>>
  ELSE IF Len(s) >= Len(pattern) /\ SubSeq(s, 1, Len(pattern)) = pattern
       THEN <<by>> \o replaceAll(SubSeq(s, Len(pattern) + 1, Len(s)), pattern, by)
       ELSE <<Head(s)>> \o replaceAll(Tail(s), pattern, by)

maskOf(original, modified) ==
  IF highlightAll(original)
  THEN [j \in 1..Len(tokenize(modified)) |-> FALSE]
  ELSE lcsUnchangedMask(tokenize(original), tokenize(modified))

markedOf(original, modified, mask) ==
  LET modifiedTokens == tokenize(modified)
      all == highlightAll(original)
  IN join([at \in 1..Len(modifiedTokens) |->
             markToken(modifiedTokens[at], tokenChanged(all, mask, at))], <<" ">>)

withMarks(withLinks) ==
  replaceAll(replaceAll(withLinks, OpenH, MarkModified), CloseH, CloseMark)

\* The words the texts of the diff are made of: plain words, a markdown
\* link with a one-word anchor, and the two tokens of a markdown link with a
\* two-word anchor
MaxTokens == 3

TargetUrl == <<"u", "/", "a">>

OriginalWords == {<<"s", "e", "o">>, <<"l", "i", "n", "k">>}

ModifiedWords ==
  OriginalWords \cup {<<"a", "&", "b">>, <<"[", "s", "e", "o", "]", "(", "u", "/", "a", ")">>, <<"[", "s", "e", "o">>, <<"l", "i", "n", "k", "]", "(", "u", "/", "a", ")">>}

WordLists(words) == UNION { [1..n -> words] : n \in 0..MaxTokens }

OriginalInputs ==
  { join(ws, <<" ">>) : ws \in WordLists(OriginalWords) }
    \cup { Sentinel, <<" ", NL>>, <<NL, " ">> \o <<"s", "e", "o">> \o <<NBSP, " ">> \o <<"l", "i", "n", "k">> \o <<" ">>,
           <<"[", "s", "e", "o", "]", "(", "u", "/", "a", ")">>, <<"[", "s", "e", "o">> \o <<" ">> \o <<"l", "i", "n", "k", "]", "(", "u", "/", "a", ")">> }

ModifiedInputs ==
  { join(ws, <<" ">>) : ws \in WordLists(ModifiedWords) } \cup { Sentinel }

InitDiff ==
  /\ originalText \in OriginalInputs
  /\ modifiedMarkdown \in ModifiedInputs
  /\ diffPc = "call"
  /\ unchangedMask = <<>>
  /\ marked = <<>>
  /\ diffHtml = <<>>
  /\ GraphIdle
  /\ PoolIdle
  /\ RetryIdle
  /\ RenderIdle
  /\ CacheIdle

\* One call of highlightDiffWordsToHtml
HighlightDiff ==
  /\ diffPc = "call"
  /\ \E mask \in {maskOf(originalText, modifiedMarkdown)} :
       \E m \in {markedOf(originalText, modifiedMarkdown, mask)} :
         /\ unchangedMask' = mask
         /\ marked' = m
         /\ diffHtml' = withMarks(markdownLinkToHtml(m))
  /\ diffPc' = "returned"
  /\ UNCHANGED <<originalText, modifiedMarkdown, judgeVars, rankVars, poolVars, retryVars,
               renderVars, cacheVars>>

NextDiff == HighlightDiff

SpecDiff == InitDiff /\ [][NextDiff]_vars

\* ---------------------------------------------------------------------
\* Properties of the word-level diff
\* ---------------------------------------------------------------------

RECURSIVE countOf(_, _)
countOf(s, x) ==
  IF s = <<>> THEN 0 ELSE (IF Head(s) = x THEN 1 ELSE 0) + countOf(Tail(s), x)

\* The piece of marked that stands for each modified token
markedPieces == splitSpace(marked)

isWrapped(piece) ==
  /\ Len(piece) >= Len(OpenH) + Len(CloseH)
  /\ SubSeq(piece, 1, Len(OpenH)) = OpenH
  /\ SubSeq(piece, Len(piece) - Len(CloseH) + 1, Len(piece)) = CloseH

\* How many tokens of the modified text the call marked as changed
changedCount == countOf(diffHtml, MarkModified)

SameText == tokenize(originalText) = tokenize(modifiedMarkdown)

\* C24 as stated: the diff of a text against itself marks no token.
NoOpDiffMarksNothing ==
  (diffPc = "returned" /\ originalText = modifiedMarkdown) =>
    /\ changedCount = 0
    /\ countOf(diffHtml, CloseMark) = 0

\* C24: the diff of a text against itself marks no token, unless the text
\* is the new-excerpt sentinel "[Trecho novo]" (after white-space
\* normalisation), whose tokens are all marked.
NoOpDiffMarksNothingButSentinel ==
  (diffPc = "returned" /\ originalText = modifiedMarkdown) =>
    IF normalizeWhitespace(originalText) = Sentinel
    THEN changedCount = 2
    ELSE /\ changedCount = 0
         /\ countOf(diffHtml, CloseMark) = 0
         /\ \A k \in 1..Len(unchangedMask) : unchangedMask[k]

\* A text of three words was diffed against itself and nothing was marked
NoOpDiffed ==
  /\ diffPc = "returned"
  /\ originalText = modifiedMarkdown
  /\ Len(tokenize(originalText)) = 3
  /\ tokenize(originalText)[1] = tokenize(originalText)[3]
  /\ changedCount = 0
  /\ diffHtml = originalText

\* C25: when the original text has no token or is the new-excerpt
\* sentinel, every token of the modified text is marked as changed.
NewExcerptAllChanged ==
  (/\ diffPc = "returned"
   /\ \/ Len(trim(collapseWhitespace(replaceNbsp(originalText)))) = 0
      \/ trim(collapseWhitespace(replaceNbsp(originalText))) = Sentinel) =>
    /\ Len(markedPieces) = IF marked = <<>> THEN 1 ELSE Len(tokenize(modifiedMarkdown))
    /\ marked # <<>> => \A k \in 1..Len(markedPieces) : isWrapped(markedPieces[k])
    /\ changedCount = Len(tokenize(modifiedMarkdown))
    /\ countOf(diffHtml, CloseMark) = Len(tokenize(modifiedMarkdown))

\* The sentinel was diffed against itself: both tokens are marked
SentinelDiffed ==
  /\ diffPc = "returned"
  /\ originalText = Sentinel
  /\ modifiedMarkdown = Sentinel
  /\ changedCount = 2

\* An original of white space only was diffed against three words
EmptyOriginalDiffed ==
  /\ diffPc = "returned"
  /\ originalText = <<" ", NL>>
  /\ Len(tokenize(modifiedMarkdown)) = 3
  /\ changedCount = 3

\* x is a subsequence of a
RECURSIVE isSubsequence(_, _)
isSubsequence(x, a) ==
  IF x = <<>> THEN TRUE
  ELSE IF a = <<>> THEN FALSE
  ELSE IF Head(x) = Head(a) THEN isSubsequence(Tail(x), Tail(a))
  ELSE isSubsequence(x, Tail(a))

\* The tokens of b at the positions of keep, in order
RECURSIVE pick(_, _, _)
pick(b, keep, j) ==
  IF j > Len(b) THEN <<>>
  ELSE (IF j \in keep THEN <<b[j]>> ELSE <<>>) \o pick(b, keep, j + 1)

\* The length of a longest common subsequence, by enumeration
lcsLength(a, b) ==
  CHOOSE n \in 0..Len(b) :
    /\ \E keep \in SUBSET (1..Len(b)) :
         Cardinality(keep) = n /\ isSubsequence(pick(b, keep, 1), a)
    /\ \A keep \in SUBSET (1..Len(b)) :
         isSubsequence(pick(b, keep, 1), a) => Cardinality(keep) <= n

\* C26: the tokens the mask leaves unchanged form, in order, a common
\* subsequence of the original and the modified tokens whose length is
\* the length of a longest common subsequence; every other token of the
\* modified text is wrapped in the marker of the modified view.
MaskIsLongestCommonSubsequence ==
  (diffPc = "returned" /\ ~highlightAll(originalText)) =>
    \E a \in {tokenize(originalText)} : \E b \in {tokenize(modifiedMarkdown)} :
      \E keep \in {{j \in 1..Len(b) : unchangedMask[j]}} :
        /\ Len(unchangedMask) = Len(b)
        /\ isSubsequence(pick(b, keep, 1), a)
        /\ Cardinality(keep) = lcsLength(a, b)
        /\ \A j \in 1..Len(b) : isWrapped(markedPieces[j]) <=> j \notin keep
        /\ changedCount = Len(b) - Cardinality(keep)

\* Two of three modified tokens are in the alignment although the texts
\* start with different words
AlignedAcrossChange ==
  /\ diffPc = "returned"
  /\ tokenize(originalText) = <<<<"s", "e", "o">>, <<"s", "e", "o">>, <<"l", "i", "n", "k">>>>
  /\ tokenize(modifiedMarkdown) = <<<<"l", "i", "n", "k">>, <<"s", "e", "o">>, <<"s", "e", "o">>>>
  /\ unchangedMask = <<FALSE, TRUE, TRUE>>
  /\ changedCount = 1

\* C27: when the modified text holds exactly one markdown link and it
\* points to the target url, the html of the modified view holds exactly
\* one anchor element, its href is the target url, and no markdown link
\* is left in it.
hrefsOf(html) ==
  { SubSeq(html, p + 1, q - 1) :
      p \in {k \in 1..Len(html) : html[k] = OpenA},
      q \in {k \in 1..Len(html) : html[k] = MidA} }

MarkdownLinkBecomesAnchor ==
  (diffPc = "returned" /\ ensureSingleMarkdownLink(modifiedMarkdown, TargetUrl)) =>
    /\ countOf(diffHtml, OpenA) = 1
    /\ countOf(diffHtml, CloseA) = 1
    /\ hrefsOf(diffHtml) = {TargetUrl}
    /\ matchAllLinks(diffHtml, 1) = <<>>

\* ---------------------------------------------------------------------
\* Block extraction and the three views of applyBlockEditsToHtml
\* ---------------------------------------------------------------------

\* An html fragment is the list of its elements in document order.  An
\* element has a tag, a parent (the position of the parent element, 0 for
\* the root container) and the text nodes and links directly inside it.
Node(tag, parent, inner) == [tag |-> tag, parent |-> parent, inner |-> inner]

\* A text node; a link with its text node.  wrapped tells that the text
\* node was replaced by a span, whose innerHTML value then is.
TextNode(value) == [kind |-> "text", href |-> <<>>, value |-> value, wrapped |-> FALSE]
LinkNode(href, value) == [kind |-> "a", href |-> href, value |-> value, wrapped |-> FALSE]

MarkOriginal == "<mark class=\"inlink-highlight-original\">"
MarkLinked == "<mark class=\"inlink-highlight-linked\">"

\* querySelectorAll("h1,h2,h3,h4,h5,h6,p,li,blockquote,pre,code")
blockTags == {"h1", "h2", "h3", "h4", "h5", "h6", "p", "li", "blockquote", "pre", "code"}

RECURSIVE selectFrom(_, _)
selectFrom(doc, k) ==
  IF k > Len(doc) THEN <<>>
  ELSE (IF doc[k].tag \in blockTags THEN <<k>> ELSE <<>>) \o selectFrom(doc, k + 1)

blockElementsInOrder(doc) == selectFrom(doc, 1)

\* nodePath: tag and index among the previous siblings of the same tag, for
\* the element and its ancestors; the walk stops below the element whose id
\* is "root" and otherwise runs up to the document element
RECURSIVE nodePath(_, _, _)
nodePath(doc, k, root) ==
  LET index == Cardinality({j \in 1..(k - 1) :
                              doc[j].parent = doc[k].parent /\ doc[j].tag = doc[k].tag})
      part == <<doc[k].tag, index>>
  IN IF doc[k].parent = 0
     THEN (IF root = "root" THEN <<>> ELSE <<<<"html", 0>>, <<"body", 0>>, <<"div", 0>>>>)
            \o <<part>>
     ELSE nodePath(doc, doc[k].parent, root) \o <<part>>

\* stableId of the block extractor: `b:${ordinal}:${tag}:${path}`
stableId(doc, k, ordinal, root) ==
  [ordinal |-> ordinal, tag |-> doc[k].tag, path |-> nodePath(doc, k, root)]

\* stableBlockIdForElement of the render engine
stableBlockIdForElement(doc, k, ordinal, root) ==
  [ordinal |-> ordinal, tag |-> doc[k].tag, path |-> nodePath(doc, k, root)]

unescapeEntities ==
  <<[from |-> <<"&", "a", "m", "p", ";">>, to |-> "&"], [from |-> <<"&", "l", "t", ";">>, to |-> "<"], [from |-> <<"&", "g", "t", ";">>, to |-> ">"],
    [from |-> <<"&", "q", "u", "o", "t", ";">>, to |-> "\""], [from |-> <<"&", "#", "3", "9", ";">>, to |-> "'"]>>

\* The text an html string parses to: tags away, entities decoded
RECURSIVE textOfHtml(_)
textOfHtml(html) ==
  IF html = <<>> THEN <<>>
  ELSE IF Head(html) \in {OpenA, MidA, CloseA, MarkModified, MarkLinked, MarkOriginal, CloseMark}
       THEN textOfHtml(Tail(html))
       ELSE LET hits == {e \in 1..Len(unescapeEntities) :
                           /\ Len(html) >= Len(unescapeEntities[e].from)
                           /\ SubSeq(html, 1, Len(unescapeEntities[e].from)) = unescapeEntities[e].from}
            IN IF hits = {} THEN <<Head(html)>> \o textOfHtml(Tail(html))
               ELSE LET e == CHOOSE x \in hits : TRUE
                    IN <<unescapeEntities[e].to>>
                         \o textOfHtml(SubSeq(html, Len(unescapeEntities[e].from) + 1, Len(html)))

\* The value of the text node(s) of a piece
pieceText(piece) == IF piece.wrapped THEN textOfHtml(piece.value) ELSE piece.value

RECURSIVE piecesText(_)
piecesText(pieces) ==
  IF pieces = <<>> THEN <<>> ELSE pieceText(Head(pieces)) \o piecesText(Tail(pieces))

\* el.textContent: the text inside the element and inside its descendants
RECURSIVE textContent(_, _)
RECURSIVE childrenText(_, _, _)
childrenText(doc, k, j) ==
  IF j > Len(doc) THEN <<>>
  ELSE (IF doc[j].parent = k THEN textContent(doc, j) ELSE <<>>) \o childrenText(doc, k, j + 1)

textContent(doc, k) == piecesText(doc[k].inner) \o childrenText(doc, k, k + 1)

isVisibleText(value) == Len(normalizeWhitespace(value)) > 0

classifyTag(tag) ==
  CASE tag \in {"h1", "h2", "h3", "h4", "h5", "h6"} -> "heading"
    [] tag = "p" -> "paragraph"
    [] tag = "li" -> "list_item"
    [] tag = "blockquote" -> "blockquote"
    [] tag \in {"pre", "code"} -> "code"
    [] OTHER -> "other"

\* Mutant: the ordinal counts the blocks kept so far
blockIdAmongKept(doc, cands, at, root) ==
  stableId(doc, cands[at],
           Cardinality({j \in 1..(at - 1) : isVisibleText(textContent(doc, cands[j]))}), root)

\* The id parseHtmlToBlocks gives the candidate at position at (idx = at - 1)
blockIdOf(doc, cands, at, root) == stableId(doc, cands[at], at - 1, root)

\* candidates.forEach of parseHtmlToBlocks, with dropEmpty
RECURSIVE parseFrom(_, _, _, _)
parseFrom(doc, cands, at, root) ==
  IF at > Len(cands) THEN <<>>
  ELSE LET text == normalizeWhitespace(textContent(doc, cands[at]))
       IN (IF ~isVisibleText(text) THEN <<>>
           ELSE <<[id |-> blockIdOf(doc, cands, at, root),
                   type |-> classifyTag(doc[cands[at]].tag),
                   tag |-> doc[cands[at]].tag,
                   text |-> text]>>)
            \o parseFrom(doc, cands, at + 1, root)

parseHtmlToBlocks(doc, root) == parseFrom(doc, blockElementsInOrder(doc), 1, root)

\* b.type === "paragraph" || b.type === "list_item"
RECURSIVE toPrincipalBlocks(_)
toPrincipalBlocks(blocks) ==
  IF blocks = <<>> THEN <<>>
  ELSE (IF Head(blocks).type \in {"paragraph", "list_item"} THEN <<Head(blocks)>> ELSE <<>>)
         \o toPrincipalBlocks(Tail(blocks))

\* buildBlockIdMap: the id set for each block element, in order
buildBlockIdMap(doc, root) ==
  LET els == blockElementsInOrder(doc)
  IN [at \in 1..Len(els) |-> [id |-> stableBlockIdForElement(doc, els[at], at - 1, root),
                              el |-> els[at]]]

\* The map applyBlockHtmlEdits builds
htmlEditsMap(doc, root) ==
  LET all == blockElementsInOrder(doc)
  IN [at \in 1..Len(all) |-> [id |-> stableId(doc, all[at], at - 1, root), el |-> all[at]]]

\* map.get(id): the element set last for the id, 0 for undefined
mapGet(map, id) ==
  LET hits == {at \in 1..Len(map) : map[at].id = id}
  IN IF hits = {} THEN 0
     ELSE map[CHOOSE at \in hits : \A other \in hits : other <= at].el

normalizeForSearch(value) == toLowerCase(normalizeWhitespace(value))

\* String.prototype.indexOf, -1 when sub does not occur
indexOf(s, sub) ==
  LET hits == {i \in 0..(Len(s) - Len(sub)) : SubSeq(s, i + 1, i + Len(sub)) = sub}
  IN IF hits = {} THEN -1 ELSE CHOOSE i \in hits : \A other \in hits : i <= other

\* text.slice(0, end) and text.slice(start)
sliceTo(s, end) == SubSeq(s, 1, Min(end, Len(s)))
sliceFrom(s, start) == SubSeq(s, Min(start, Len(s)) + 1, Len(s))

\* The content of an element of one of the three DOMs: its text nodes and
\* links, or the html its innerHTML was set to
Inner(pieces) == [replaced |-> FALSE, pieces |-> pieces, html |-> <<>>]
Replaced(html) == [replaced |-> TRUE, pieces |-> <<>>, html |-> html]

\* buildDom
buildDom(doc) == [k \in 1..Len(doc) |-> Inner(doc[k].inner)]

\* The texts of the links of an html string
htmlLinkTexts(html) ==
  {textOfHtml(SubSeq(html, mid + 1, close - 1)) :
     <<mid, close>> \in {pair \in (1..Len(html)) \X (1..Len(html)) :
                           /\ html[pair[1]] = MidA
                           /\ html[pair[2]] = CloseA
                           /\ pair[1] < pair[2]
                           /\ \A between \in (pair[1] + 1)..(pair[2] - 1) :
                                 html[between] # CloseA}}

\* el.querySelectorAll("a"), as the texts of the links: the links of the
\* html the element was set to, or its own links and those of the
\* elements inside it
RECURSIVE linkTexts(_, _, _)
linkTexts(dom, doc, k) ==
  IF dom[k].replaced THEN htmlLinkTexts(dom[k].html)
  ELSE {pieceText(dom[k].pieces[n]) :
          n \in {at \in 1..Len(dom[k].pieces) : dom[k].pieces[at].kind = "a"}}
         \cup UNION {linkTexts(dom, doc, child) :
                       child \in {j \in (k + 1)..Len(doc) : doc[j].parent = k}}

\* Mutant: the link text is compared as it is written
anchorAlreadyLinkedExactly(links, anchorText) ==
  \E text \in links : text = anchorText

\* links.some((a) => normalizeForSearch(a.textContent) === normalizedAnchor)
anchorAlreadyLinkedInElement(links, anchorText) ==
  \E text \in links : normalizeForSearch(text) = normalizeForSearch(anchorText)

\* The while loop of wrapFirstOccurrenceInElementText over the text nodes
\* from position k on
RECURSIVE wrapFrom(_, _, _, _)
wrapFrom(pieces, k, anchorText, replacementHtml) ==
  IF k > Len(pieces) THEN pieces
  ELSE LET text == pieces[k].value
           index == indexOf(normalizeForSearch(text), normalizeForSearch(anchorText))
       IN IF index # -1
          THEN LET before == sliceTo(text, index)
                   after == sliceFrom(text, index + Len(anchorText))
               IN [pieces EXCEPT ![k].wrapped = TRUE,
                                 ![k].value = escapeHtml(before) \o replacementHtml
                                                \o escapeHtml(after)]
          ELSE wrapFrom(pieces, k + 1, anchorText, replacementHtml)

wrapFirstOccurrenceInElementText(inner, anchorText, replacementHtml) ==
  [inner EXCEPT !.pieces = wrapFrom(inner.pieces, 1, anchorText, replacementHtml)]

redMark(anchor) == <<MarkOriginal>> \o escapeHtml(anchor) \o <<CloseMark>>

\* html.replace(/<a href="([^"]+)" target="_blank" rel="noopener noreferrer">([\s\S]*?)<\/a>/g, ...)
RECURSIVE wrapAnchors(_)
wrapAnchors(html) ==
  IF html = <<>> THEN <<>>
  ELSE LET mids == {k \in 2..Len(html) : html[k] = MidA}
           mid == IF mids = {} THEN 0 ELSE CHOOSE k \in mids : \A other \in mids : k <= other
           closes == {k \in (mid + 1)..Len(html) : html[k] = CloseA}
           close == IF closes = {} THEN 0
                    ELSE CHOOSE k \in closes : \A other \in closes : k <= other
       IN IF /\ Head(html) = OpenA
             /\ mid > 2
             /\ \A k \in 2..(mid - 1) : html[k] # "\""
             /\ close > 0
          THEN <<MarkLinked>> \o SubSeq(html, 1, close) \o <<CloseMark>>
                 \o wrapAnchors(SubSeq(html, close + 1, Len(html)))
          ELSE <<Head(html)>> \o wrapAnchors(Tail(html))

highlightLinkedWordsToHtml(markdown) == wrapAnchors(markdownLinkToHtml(markdown))

highlightDiffWordsToHtml(original, modified) ==
  withMarks(markdownLinkToHtml(markedOf(original, modified, maskOf(original, modified))))

\* input.preserveExistingLinks ?? true
preserveOf(option) == option # "false"

\* The fragments the render engine is run on
MaxEdits == 2

AnchorSeo == <<"s", "e", "o", " ", "l", "i", "n", "k">>
AnchorSeoCased == <<"S", "E", "O", " ", "l", "i", "n", "k">>

DocArticle ==
  <<Node("h2", 0, <<TextNode(<<"G", "u", "i", "a">>)>>),
    Node("p", 0, <<>>),
    Node("p", 0, <<TextNode(<<"V", "e", "j", "a", " ", "S", "E", "O", " ", "L", "i", "n", "k", " ", "a", "q", "u", "i">>)>>),
    Node("ul", 0, <<>>),
    Node("li", 4, <<TextNode(<<"l", "e", "i", "a", " ">>), LinkNode(<<"u", "/", "b">>, <<"s", "e", "o", " ", "l", "i", "n", "k">>), TextNode(<<" ", "h", "o", "j", "e">>)>>),
    Node("li", 4, <<TextNode(<<NL, " ", "v", "e", "j", "a", " ", "s", "e", "o", " ", "l", "i", "n", "k">>)>>)>>

DocQuote ==
  <<Node("div", 0, <<>>),
    Node("blockquote", 1, <<>>),
    Node("p", 2, <<TextNode(<<"v", "e", "j", "a", " ", "s", "e", "o", " ", "l", "i", "n", "k", " ", "a", "q", "u", "i">>)>>),
    Node("p", 1, <<TextNode(<<"n", "a", "d", "a">>)>>),
    Node("pre", 0, <<TextNode(<<" ", NL>>)>>),
    Node("p", 0, <<TextNode(<<"a", "&", "b", " ", "s", "e", "o", NBSP, " ", "l", "i", "n", "k">>)>>)>>

\* A list item that holds a paragraph; both are blocks.  The text of the
\* list item itself comes first and holds the anchors of the edits, so
\* that the text walk of wrapFirstOccurrenceInElementText ends there.
DocNested ==
  <<Node("ul", 0, <<>>),
    Node("li", 1, <<TextNode(<<"v", "e", "j", "a", " ", "s", "e", "o", " ", "l", "i", "n", "k", " ">>)>>),
    Node("p", 2, <<TextNode(<<"s", "e", "o", " ", "l", "i", "n", "k", " ", "a", "q", "u", "i">>)>>)>>

HtmlInputs == {DocArticle, DocQuote, DocNested}

\* An id no element has
UnknownBlockId == [ordinal |-> 99, tag |-> "p", path |-> <<>>]

\* The edit the block graph makes for a block with an anchor
EditFor(block, anchor) ==
  [blockId |-> block.id,
   targetUrl |-> TargetUrl,
   anchor |-> anchor,
   originalBlockText |-> block.text,
   modifiedBlockText |-> <<"v", "e", "j", "a", " ">> \o <<"[">> \o anchor \o <<"]", "(">> \o TargetUrl \o <<")">>]

\* An edit whose modified text holds markup outside the link
EditWithMarkup(block) ==
  [EditFor(block, AnchorSeo) EXCEPT
     !.modifiedBlockText = <<"<", "i", ">", "v", "e", "j", "a", "<", "/", "i", ">", " ">> \o <<"[">> \o AnchorSeo \o <<"]", "(">> \o TargetUrl \o <<")">>]

\* The edits of one run: at most one for a block, for blocks of the
\* extraction and for a block the fragment does not have
EditInputs(blocks) ==
  LET targets == Range(toPrincipalBlocks(blocks))
                   \cup {[id |-> UnknownBlockId, type |-> "paragraph", tag |-> "p",
                          text |-> <<"n", "a", "d", "a">>]}
      one == {EditFor(b, a) : b \in targets, a \in {AnchorSeo, AnchorSeoCased}}
               \cup {EditWithMarkup(b) : b \in targets}
  IN {es \in UNION {[1..n -> one] : n \in 0..MaxEdits} :
        \A i, j \in 1..Len(es) : i # j => es[i].blockId # es[j].blockId}

InitRender ==
  /\ htmlContent \in HtmlInputs
  /\ rootId \in {"root", "content"}
  /\ parsedBlocks = parseHtmlToBlocks(htmlContent, rootId)
  /\ blockEdits \in EditInputs(parsedBlocks)
  /\ preserveExistingLinks \in {"undefined", "true", "false"}
  /\ editIdx = 0
  /\ originalView = buildDom(htmlContent)
  /\ linkedView = buildDom(htmlContent)
  /\ modifiedView = buildDom(htmlContent)
  /\ applied = NoCounters
  /\ renderPc = "loop"
  /\ GraphIdle
  /\ PoolIdle
  /\ RetryIdle
  /\ DiffIdle
  /\ CacheIdle

\* Mutant: an edit whose block is not found is dropped without a count
afterBlockNotFoundSilent(counters) == counters

\* skippedBlockNotFound++; continue
afterBlockNotFound(counters) == [counters EXCEPT !.skippedBlockNotFound = @ + 1]

RenderFrame ==
  UNCHANGED <<htmlContent, rootId, parsedBlocks, blockEdits, preserveExistingLinks,
              judgeVars, rankVars, poolVars, retryVars, diffVars, cacheVars>>

\* One pass of the for loop of applyBlockEditsToHtml
ApplyEdit ==
  /\ renderPc = "loop"
  /\ editIdx < Len(blockEdits)
  /\ editIdx' = editIdx + 1
  /\ \E edit \in {blockEdits[editIdx + 1]} :
       \E el \in {mapGet(buildBlockIdMap(htmlContent, rootId), edit.blockId)} :
         IF el = 0
         THEN /\ applied' = afterBlockNotFound(applied)
              /\ UNCHANGED <<originalView, linkedView, modifiedView>>
         ELSE \E alreadyLinked \in {anchorAlreadyLinkedInElement(linkTexts(linkedView, htmlContent, el),
                                                                    edit.anchor)} :
                /\ originalView' =
                     [originalView EXCEPT ![el] =
                        wrapFirstOccurrenceInElementText(@, edit.anchor, redMark(edit.anchor))]
                /\ linkedView' =
                     IF alreadyLinked /\ preserveOf(preserveExistingLinks)
                     THEN linkedView
                     ELSE [linkedView EXCEPT ![el] =
                             Replaced(highlightLinkedWordsToHtml(edit.modifiedBlockText))]
                /\ modifiedView' =
                     [modifiedView EXCEPT ![el] =
                        Replaced(highlightDiffWordsToHtml(edit.originalBlockText,
                                                          edit.modifiedBlockText))]
                /\ applied' =
                     IF alreadyLinked /\ preserveOf(preserveExistingLinks)
                     THEN [applied EXCEPT !.skippedAlreadyLinked = @ + 1,
                                          !.appliedModified = @ + 1]
                     ELSE [applied EXCEPT !.appliedLinked = @ + 1,
                                          !.appliedModified = @ + 1]
  /\ UNCHANGED renderPc
  /\ RenderFrame

\* An element of a DOM is no longer in the tree of the root container once
\* the innerHTML of an element above it was set
RECURSIVE detached(_, _, _)
detached(dom, doc, k) ==
  IF doc[k].parent = 0 THEN FALSE
  ELSE dom[doc[k].parent].replaced \/ detached(dom, doc, doc[k].parent)

\* root.innerHTML: the elements the returned html of a view holds
returnedElements(dom) == {k \in 1..Len(htmlContent) : ~detached(dom, htmlContent, k)}

\* The loop is over: applyBlockEditsToHtml returns the views and counters
RenderReturn ==
  /\ renderPc = "loop"
  /\ editIdx = Len(blockEdits)
  /\ renderPc' = "returned"
  /\ UNCHANGED <<editIdx, originalView, linkedView, modifiedView, applied>>
  /\ RenderFrame

NextRender == ApplyEdit \/ RenderReturn

SpecRender == InitRender /\ [][NextRender]_vars

\* ---------------------------------------------------------------------
\* Properties of block identity and of the original and linked views
\* ---------------------------------------------------------------------

\* The block elements with visible text, in document order
RECURSIVE visibleFrom(_, _, _)
visibleFrom(doc, cands, at) ==
  IF at > Len(cands) THEN <<>>
  ELSE (IF Len(trim(collapseWhitespace(replaceNbsp(textContent(doc, cands[at]))))) > 0
        THEN <<cands[at]>> ELSE <<>>) \o visibleFrom(doc, cands, at + 1)

emittedElements == visibleFrom(htmlContent, blockElementsInOrder(htmlContent), 1)

emittedIds == {parsedBlocks[i].id : i \in 1..Len(parsedBlocks)}

\* C28: extracting the fragment again gives the same blocks; the ids of
\* the blocks differ from each other; the id map of the render engine and
\* the one of applyBlockHtmlEdits hold the id of every extracted block, set
\* to the element the block was extracted from; the loop counts as
\* block-not-found only edits whose blockId no extracted block has.
BlockIdsResolve ==
  renderPc # "idle" =>
    /\ parsedBlocks = parseHtmlToBlocks(htmlContent, rootId)
    /\ Len(parsedBlocks) = Len(emittedElements)
    /\ \A i, j \in 1..Len(parsedBlocks) : i # j => parsedBlocks[i].id # parsedBlocks[j].id
    /\ \A i \in 1..Len(parsedBlocks) :
         /\ parsedBlocks[i].tag = htmlContent[emittedElements[i]].tag
         /\ mapGet(buildBlockIdMap(htmlContent, rootId), parsedBlocks[i].id) = emittedElements[i]
         /\ mapGet(htmlEditsMap(htmlContent, rootId), parsedBlocks[i].id) = emittedElements[i]
    /\ applied.skippedBlockNotFound =
         Cardinality({i \in 1..editIdx : blockEdits[i].blockId \notin emittedIds})

\* Two edits for blocks that come after an empty paragraph were both
\* resolved, with a root container of another id
EditsResolvedAfterEmptyBlock ==
  /\ renderPc = "returned"
  /\ htmlContent = DocArticle
  /\ rootId = "content"
  /\ Len(blockEdits) = 2
  /\ \A i \in 1..2 : blockEdits[i].blockId \in emittedIds
  /\ blockEdits[1].blockId.ordinal = 3
  /\ blockEdits[2].blockId.ordinal = 2
  /\ applied.skippedBlockNotFound = 0
  /\ applied.appliedModified = 2
  /\ modifiedView[5].replaced
  /\ modifiedView[3].replaced

\* C29: the original view keeps the text of every element (nothing is
\* dropped, duplicated or re-cased) and keeps every link with its href
\* and its text.
OriginalViewKeepsText ==
  renderPc # "idle" =>
    \A k \in 1..Len(htmlContent) :
      /\ piecesText(originalView[k].pieces) = piecesText(htmlContent[k].inner)
      /\ Len(originalView[k].pieces) = Len(htmlContent[k].inner)
      /\ \A n \in 1..Len(htmlContent[k].inner) :
           htmlContent[k].inner[n].kind = "a" =>
             /\ originalView[k].pieces[n].kind = "a"
             /\ originalView[k].pieces[n].href = htmlContent[k].inner[n].href
             /\ pieceText(originalView[k].pieces[n]) = htmlContent[k].inner[n].value

\* The element an edit names, by the extraction
elementsOf(edit) ==
  {emittedElements[i] : i \in {n \in 1..Len(parsedBlocks) : parsedBlocks[n].id = edit.blockId}}

RECURSIVE without(_, _)
without(html, symbols) ==
  IF html = <<>> THEN <<>>
  ELSE (IF Head(html) \in symbols THEN <<>> ELSE <<Head(html)>>) \o without(Tail(html), symbols)

\* html is the converted markdown with each link inside a linked-highlight
\* marker
linkedHtmlOf(html, markdown) ==
  /\ without(html, {MarkLinked, CloseMark}) = markdownLinkFrom(markdown, 1)
  /\ countOf(html, OpenA) = 1
  /\ countOf(html, MarkLinked) = 1
  /\ countOf(html, CloseMark) = 1
  /\ \A at \in 1..Len(html) :
       /\ html[at] = OpenA => (at > 1 /\ html[at - 1] = MarkLinked)
       /\ html[at] = CloseA => (at < Len(html) /\ html[at + 1] = CloseMark)

\* C30: with preserveExistingLinks left at its default (or true), an edit
\* for a block that holds a link whose normalized text is the normalized
\* anchor leaves the block of the linked view as it is and adds one to
\* skippedAlreadyLinked; any other edit for a block of the fragment
\* replaces the content of the block by the converted markdown with the
\* link inside the linked-highlight marker and adds one to appliedLinked.
LinkedViewSkipsOrReplaces ==
  [][ (renderPc = "loop" /\ editIdx' = editIdx + 1 /\ preserveExistingLinks # "false") =>
        \A k \in elementsOf(blockEdits[editIdx + 1]) :
          IF \E text \in linkTexts(linkedView, htmlContent, k) :
               toLowerCase(trim(collapseWhitespace(replaceNbsp(text))))
                 = toLowerCase(trim(collapseWhitespace(replaceNbsp(blockEdits[editIdx + 1].anchor))))
          THEN /\ linkedView' = linkedView
               /\ applied'.skippedAlreadyLinked = applied.skippedAlreadyLinked + 1
               /\ applied'.appliedLinked = applied.appliedLinked
          ELSE /\ linkedView'[k].replaced
               /\ linkedHtmlOf(linkedView'[k].html, blockEdits[editIdx + 1].modifiedBlockText)
               /\ \A other \in 1..Len(htmlContent) : other # k => linkedView'[other] = linkedView[other]
               /\ applied'.appliedLinked = applied.appliedLinked + 1
               /\ applied'.skippedAlreadyLinked = applied.skippedAlreadyLinked
    ]_vars

\* With the default policy, one edit met its anchor already linked (in
\* another spelling) and left the list item alone, the other replaced its
\* paragraph
LinkedSkippedAndReplaced ==
  /\ renderPc = "returned"
  /\ htmlContent = DocArticle
  /\ preserveExistingLinks = "undefined"
  /\ Len(blockEdits) = 2
  /\ blockEdits[1].anchor = AnchorSeoCased
  /\ blockEdits[1].blockId.ordinal = 3
  /\ blockEdits[2].blockId.ordinal = 2
  /\ applied.skippedAlreadyLinked = 1
  /\ applied.appliedLinked = 1
  /\ linkedView[5] = Inner(DocArticle[5].inner)
  /\ linkedView[3].replaced
  /\ countOf(linkedView[3].html, MarkLinked) = 1

\* ---------------------------------------------------------------------
\* Properties of the counters of applyBlockEditsToHtml
\* ---------------------------------------------------------------------

\* The ids of the block elements of the fragment
resolvableIds ==
  {[ordinal |-> at - 1, tag |-> htmlContent[blockElementsInOrder(htmlContent)[at]].tag,
    path |-> nodePath(htmlContent, blockElementsInOrder(htmlContent)[at], rootId)] :
     at \in 1..Len(blockElementsInOrder(htmlContent))}

\* C31: the counters account for every edit handled so far (edits handled
\* = appliedModified + skippedBlockNotFound, appliedModified =
\* appliedLinked + skippedAlreadyLinked), at the return all edits were
\* handled, and an edit whose blockId no element has changes none of the
\* three views and adds one to skippedBlockNotFound.
CountersAccountForEdits ==
  /\ [](renderPc # "idle" =>
          /\ editIdx = applied.appliedModified + applied.skippedBlockNotFound
          /\ applied.appliedModified = applied.appliedLinked + applied.skippedAlreadyLinked
          /\ renderPc = "returned" => editIdx = Len(blockEdits))
  /\ [][ (renderPc = "loop" /\ editIdx' = editIdx + 1
            /\ blockEdits[editIdx + 1].blockId \notin resolvableIds) =>
           /\ originalView' = originalView
           /\ linkedView' = linkedView
           /\ modifiedView' = modifiedView
           /\ applied'.skippedBlockNotFound = applied.skippedBlockNotFound + 1
           /\ applied'.appliedModified = applied.appliedModified
           /\ applied'.appliedLinked = applied.appliedLinked
           /\ applied'.skippedAlreadyLinked = applied.skippedAlreadyLinked ]_vars

\* A run returned with one edit applied and one edit whose block was not
\* found
UnresolvedEditCounted ==
  /\ renderPc = "returned"
  /\ Len(blockEdits) = 2
  /\ blockEdits[1].blockId = UnknownBlockId
  /\ applied.skippedBlockNotFound = 1
  /\ applied.appliedModified = 1
  /\ applied.appliedLinked = 1

\* ---------------------------------------------------------------------
\* Properties of the anchors, the raw responses and the final checks of
\* the edit-proposal loop
\* ---------------------------------------------------------------------

\* C32: the anchor of every accepted edit has two to six words.
AnchorsHaveTwoToSixWords ==
  \A i \in 1..Len(edits) : wordCount(edits[i].anchor) \in 2..6

\* C33: a raw response that holds no JSON object, holds malformed JSON
\* between its braces, or fails the schema is rejected with the
\* invalid-model-response reason.
UnparsableRejectedAsInvalid ==
  response.kind \in {"noJson", "malformed", "badSchema"} =>
    /\ rejected # <<>>
    /\ Last(rejected).reason = ReasonInvalid

\* C36: the final block-reuse check of an iteration never rejects: no
\* rejection carries its reason, and a decision that passed the identity
\* audit names a block no accepted edit used.
FinalBlockCheckNeverRejects ==
  /\ [](\A i \in 1..Len(rejected) : rejected[i].reason # ReasonBlockUsedFinal)
  /\ [][ (/\ idx' = idx + 1
          /\ response'.kind = "decision"
          /\ response'.data.ok
          /\ response'.data.block_id = bestBlockFor(scoredCandidates[idx + 1]).id)
         => response'.data.block_id \notin usedBlockIds ]_vars

\* After one accepted edit the generator named the used block for the
\* second candidate, and the identity audit rejected the decision
UsedBlockNamedAgain ==
  /\ idx = 2
  /\ Len(edits) = 1
  /\ response.kind = "decision"
  /\ response.data.ok
  /\ response.data.block_id \in usedBlockIds
  /\ Len(rejected) = 1
  /\ rejected[1].reason = ReasonIdDrift

\* ---------------------------------------------------------------------
\* The edit-proposal loop over blocks that repeat a word, blocks of
\* stopwords only, and candidates that share no word with any block
\* ---------------------------------------------------------------------

BlockRep ==
  [id |-> "b:0:p:p0", type |-> "paragraph", text |-> <<"s", "e", "o", " ", "s", "e", "o", " ", "s", "e", "o">>, containsLink |-> FALSE]
BlockWide ==
  [id |-> "b:1:p:p1", type |-> "paragraph", text |-> <<"s", "e", "o", " ", "l", "i", "n", "k">>, containsLink |-> FALSE]
BlockTie ==
  [id |-> "b:1:p:p1", type |-> "paragraph", text |-> <<"l", "i", "n", "k", " ", "s", "e", "o">>, containsLink |-> FALSE]
BlockStop ==
  [id |-> "b:0:p:p0", type |-> "paragraph", text |-> <<"d", "e", " ", "u", "m">>, containsLink |-> FALSE]
BlockRepLater ==
  [id |-> "b:2:p:p2", type |-> "paragraph", text |-> <<"s", "e", "o", " ", "s", "e", "o", " ", "s", "e", "o">>, containsLink |-> FALSE]

PickBlockLists ==
  { <<BlockRep, BlockWide>>, <<BlockStop, BlockWide, BlockRepLater>>,
    <<BlockP0, BlockTie>>, <<BlockP0, BlockLi0>>, <<BlockStop>> }

UrlD == <<"u", "/", "d">>
CandD == [url |-> UrlD, content |-> <<"n", "o", "v", "o", " ", "p", "o", "s", "t">>, score |-> 8]
PickCandidates == {CandA, CandC, CandD}

PickRankedLists ==
  { filtered(scored, thresholdOf(NoOption), maxCandidatesOf(NoOption)) :
      scored \in UNION {[1..n -> PickCandidates] : n \in 0..MaxCands} }

InitPick ==
  /\ principalBlocks \in PickBlockLists
  /\ scoredCandidates \in PickRankedLists
  /\ maxLinksInput = Undefined
  /\ pc = "judge"
  /\ idx = 0
  /\ edits = <<>>
  /\ rejected = <<>>
  /\ usedUrls = {}
  /\ usedBlockIds = {}
  /\ usedAnchorsNormalized = {}
  /\ response = NoCall
  /\ invocations = <<>>
  /\ RankedAll
  /\ PoolIdle
  /\ RetryIdle
  /\ ViewIdle

SpecPick == InitPick /\ [][Next]_vars

\* The blocks handed to pickBestBlock: the eligible blocks no accepted edit
\* used, or all eligible blocks when none is left
candidateBlocks ==
  LET unused == {b \in Range(eligibleBlocks) : b.id \notin usedBlockIds}
  IN IF unused # {} THEN SelectSeq(eligibleBlocks, LAMBDA b : b \in unused)
     ELSE eligibleBlocks

\* The block of an edit accepted in this step is the earliest of the
\* blocks whose count is the highest
AcceptedOnFirstBest(count(_, _)) ==
  (idx' = idx + 1 /\ Len(edits') = Len(edits) + 1) =>
     \E best \in {firstBest(candidateBlocks, scoredCandidates[idx + 1].content, count)} :
        /\ best # 0
        /\ edits'[Len(edits')].blockId = candidateBlocks[best].id

\* C34: an edit is accepted on the block that, among the eligible blocks
\* not yet used, shares the most distinct token types with the candidate
\* content, the earliest of them on a tie.
PicksMostSharedTypes == [][AcceptedOnFirstBest(sharedTypes)]_vars

\* C34, amended: an edit is accepted on the block that, among the eligible
\* blocks not yet used that hold a token, has the most token occurrences
\* (repetitions counted) that are tokens of the candidate content, the
\* earliest of them on a tie.
PicksMostSharedOccurrences == [][AcceptedOnFirstBest(sharedOccurrences)]_vars

\* The edit went to the later block that repeats one shared word three
\* times, not to the earlier block that shares two words
RepeatedWordBlockPicked ==
  /\ principalBlocks = <<BlockStop, BlockWide, BlockRepLater>>
  /\ idx = 1
  /\ Len(edits) = 1
  /\ edits[1].blockId = BlockRepLater.id

\* The loop reached the selection of the target block for the candidate
reachedSelection(candidate) ==
  /\ ~densityReached
  /\ ~urlUsed(candidate)
  /\ hasBlocks
  /\ Len(eligibleBlocks) > 0

\* C35: when no eligible block shares a token with the candidate content,
\* the generator is not invoked and the candidate is rejected with the
\* no-target-block reason.
NoSharedTokenMeansNoTarget ==
  [][ (/\ idx' = idx + 1
       /\ reachedSelection(scoredCandidates[idx + 1])
       /\ \A b \in Range(eligibleBlocks) :
             sharedTypes(b, scoredCandidates[idx + 1].content) = 0)
      => /\ invocations' = invocations
         /\ rejected' = Append(rejected, Rejection(scoredCandidates[idx + 1], ReasonNoTarget)) ]_vars

\* ---------------------------------------------------------------------
\* Properties of the returned html
\* ---------------------------------------------------------------------

\* C37: for edits with pairwise distinct block ids, every edit counted in
\* appliedModified is in the returned modifiedHtml and every edit counted
\* in appliedLinked is in the returned linkedHtml, nested blocks included.
CountedEditsAreReturned ==
  renderPc = "returned" =>
    \A i \in 1..Len(blockEdits) :
      \A k \in elementsOf(blockEdits[i]) :
        /\ k \in returnedElements(modifiedView)
        /\ modifiedView[k] =
             Replaced(highlightDiffWordsToHtml(blockEdits[i].originalBlockText,
                                               blockEdits[i].modifiedBlockText))
        /\ linkedView[k].replaced =>
             /\ k \in returnedElements(linkedView)
             /\ linkedView[k] = Replaced(highlightLinkedWordsToHtml(blockEdits[i].modifiedBlockText))

\* The characters that start and end a tag
markupChars == {"<", ">"}

\* C38: in each of the three views the text of modifiedBlockText outside
\* the markdown link is emitted HTML-escaped: the html set on a block holds
\* no "<" or ">" of the generator's text.
GeneratorTextEscaped ==
  renderPc # "idle" =>
    \A k \in 1..Len(htmlContent) :
      /\ modifiedView[k].replaced => Range(modifiedView[k].html) \cap markupChars = {}
      /\ linkedView[k].replaced => Range(linkedView[k].html) \cap markupChars = {}
      /\ \A n \in 1..Len(originalView[k].pieces) :
           originalView[k].pieces[n].wrapped =>
             Range(originalView[k].pieces[n].value) \cap markupChars = {}

\* ---------------------------------------------------------------------
\* fetchSerpApi and its cache.  A step is what runs without interruption:
\* from the call to "await fetchWithRetry", and from the settling of that
\* promise to the return.  SERPAPI_API_KEY is configured.
\* ---------------------------------------------------------------------

\* The most calls of fetchSerpApi in a run
MaxCalls == 3

\* The latest time of the clock
MaxClock == 2

\* CACHE_TTL_MS, one hour, in half hours
CacheTtl == 2

\* The size above which the oldest entry is deleted: 200 in the source, 2
\* here, so that runs of MaxCalls calls go above it
CacheLimit == 2

\* The serializer of URLSearchParams: a space becomes "+", the characters
\* that separate names and values are percent-encoded
RECURSIVE formEncode(_)
formEncode(value) ==
  IF value = <<>> THEN <<>>
  ELSE (CASE Head(value) = " " -> <<"+">>
          [] Head(value) = "&" -> <<"%", "2", "6">>
          [] Head(value) = "=" -> <<"%", "3", "D">>
          [] Head(value) = "+" -> <<"%", "2", "B">>
          [] OTHER -> <<Head(value)>>) \o formEncode(Tail(value))

\* new URLSearchParams(params).toString(): name=value pairs, in the order
\* of the object's properties, joined by "&"
RECURSIVE getCacheKey(_)
getCacheKey(params) ==
  IF params = <<>> THEN <<>>
  ELSE formEncode(Head(params).name) \o <<"=">> \o formEncode(Head(params).value)
         \o (IF Tail(params) = <<>> THEN <<>> ELSE <<"&">> \o getCacheKey(Tail(params)))

Param(name, value) == [name |-> name, value |-> value]

ParamSets ==
  { <<>>,
    <<Param(<<"q">>, <<"s", "e", "o">>)>>,
    <<Param(<<"q">>, <<"s", "e", "o", " ", "l", "i", "n", "k">>)>>,
    <<Param(<<"e", "n", "g", "i", "n", "e">>, <<"g">>), Param(<<"q">>, <<"s", "e", "o">>)>> }

\* The position of the entry of a key in the cache, 0 when it has none
cachePosition(entries, key) ==
  IF \E n \in 1..Len(entries) : entries[n].key = key
  THEN CHOOSE n \in 1..Len(entries) : entries[n].key = key
  ELSE 0

\* cached && now - cached.timestamp < CACHE_TTL_MS
freshHit(entries, key, now) ==
  /\ cachePosition(entries, key) # 0
  /\ now - entries[cachePosition(entries, key)].timestamp < CacheTtl

\* cache.set(cacheKey, { data, timestamp: now }): the entry of a key the
\* Map holds is replaced where it stands, a new key goes to the end
cacheSet(entries, key, now) ==
  IF cachePosition(entries, key) # 0
  THEN [entries EXCEPT ![cachePosition(entries, key)].timestamp = now]
  ELSE Append(entries, [key |-> key, timestamp |-> now])

\* if (oldestKey): a string is truthy when it is not empty
truthy(key) == key # <<>>

\* if (cache.size > 200) { oldestKey = cache.keys().next().value;
\*                         if (oldestKey) cache.delete(oldestKey) }
evictOldest(entries) ==
  IF Len(entries) > CacheLimit /\ truthy(entries[1].key) THEN Tail(entries) ELSE entries

InitCache ==
  /\ cache = <<>>
  /\ clock = 0
  /\ calls = <<>>
  /\ GraphIdle
  /\ PoolIdle
  /\ RetryIdle
  /\ DiffIdle
  /\ RenderIdle

CacheFrame == UNCHANGED <<judgeVars, rankVars, poolVars, retryVars, diffVars, renderVars>>

\* fetchSerpApi(params) up to its first await, or to the return of the
\* cached data
CallFetchSerpApi(params) ==
  /\ Len(calls) < MaxCalls
  /\ calls' = Append(calls,
                     [key |-> getCacheKey(params), now |-> clock,
                      at |-> IF freshHit(cache, getCacheKey(params), clock)
                             THEN "hit" ELSE "fetching"])
  /\ UNCHANGED <<cache, clock>>
  /\ CacheFrame

\* fetchWithRetry resolved: the data is cached, the oldest entry is
\* deleted when the cache grew above the limit, the data is returned
FetchResolved(c) ==
  /\ calls[c].at = "fetching"
  /\ cache' = evictOldest(cacheSet(cache, calls[c].key, calls[c].now))
  /\ calls' = [calls EXCEPT ![c].at = "returned"]
  /\ UNCHANGED clock
  /\ CacheFrame

\* fetchWithRetry rejected: fetchSerpApi rejects, the cache is not touched
FetchRejected(c) ==
  /\ calls[c].at = "fetching"
  /\ calls' = [calls EXCEPT ![c].at = "thrown"]
  /\ UNCHANGED <<cache, clock>>
  /\ CacheFrame

\* Half an hour passes
Tick ==
  /\ clock < MaxClock
  /\ clock' = clock + 1
  /\ UNCHANGED <<cache, calls>>
  /\ CacheFrame

NextCache ==
  \/ \E params \in ParamSets : CallFetchSerpApi(params)
  \/ \E c \in 1..Len(calls) : FetchResolved(c)
  \/ \E c \in 1..Len(calls) : FetchRejected(c)
  \/ Tick

SpecCache == InitCache /\ [][NextCache]_vars

\* C39: once a call has returned the cache holds at most the limit of
\* entries, and a call that takes the cache above the limit deletes the
\* entry that was inserted first.
CacheStaysWithinLimit ==
  /\ []((\E c \in 1..Len(calls) : calls[c].at = "returned") => Len(cache) <= CacheLimit)
  /\ [][ (/\ Len(cache) = CacheLimit
          /\ Len(cache') # Len(cache)
          /\ \E c \in 1..Len(calls) : calls[c].at = "fetching" /\ calls'[c].at = "returned")
         => /\ Len(cache') = CacheLimit
            /\ \A n \in 1..(CacheLimit - 1) : cache'[n] = cache[n + 1] ]_vars

\* ---------------------------------------------------------------------
\* ConcurrencyLimiter under mapWithConcurrency, for every concurrency the
\* constructor accepts, with tasks that settle
\* ---------------------------------------------------------------------

\* options.concurrency, in halves (1 stands for 0.5, 3 for 1.5)
RequestedConcurrency == {0, 1, 2, 3, 4}

\* The constructor throws unless Number.isFinite(concurrency) and
\* concurrency > 0
constructorAccepts(halves) == halves > 0

\* this.concurrency = Math.floor(concurrency)
limiterConcurrency(halves) == halves \div 2

InitLimiter ==
  /\ poolKind = "mapWithConcurrency"
  /\ \E n \in 0..MaxItems : items \in [1..n -> ItemInputs]
  /\ concurrency \in {limiterConcurrency(halves) :
                        halves \in {h \in RequestedConcurrency : constructorAccepts(h)}}
  /\ cursor = 0
  /\ workers = <<>>
  /\ activeCount = 0
  /\ queue = <<>>
  /\ taskState = [i \in 1..Len(items) |-> "pending"]
  /\ results = [i \in 1..Len(items) |-> Hole]
  /\ writes = [i \in 1..Len(items) |-> 0]
  /\ settled = "pending"
  /\ GraphIdle
  /\ RetryIdle
  /\ ViewIdle

NextLimiter ==
  \/ MapStart
  \/ \E i \in 1..Len(items) : TaskBegin(i)
  \/ \E i \in 1..Len(items) : TaskSettle(i)
  \/ MapReturn

\* Every run() that can go on does go on, and every running task settles
SpecLimiter == InitLimiter /\ [][NextLimiter]_vars /\ WF_vars(NextLimiter)

\* The tasks that were started, or are over
Started == {i \in 1..Len(items) : taskState[i] \in {"running", "done", "failed"}}

\* C40: every submitted task eventually starts, also after a task failed;
\* tasks that wait start in the order they were submitted; the active
\* count returns to 0; no accepted concurrency leaves tasks in the queue
\* forever.
EveryTaskEventuallyStarts ==
  /\ \A i \in 1..MaxItems :
       (i <= Len(items) /\ taskState[i] \in {"queued", "acquired"})
         ~> (i <= Len(items) /\ i \in Started)
  /\ <>[](activeCount = 0 /\ queue = <<>>)
  /\ [][ \A i, j \in 1..Len(items) :
           (i < j /\ j \in Started') => i \in Started' \/ taskState'[i] = "acquired" ]_vars
====
